---- MODULE Spec2Model ----
(***************************************************************************)
(* jhub-app-proxy: process supervisor, interim page, OAuth middleware and  *)
(* HTTP dispatcher, modelled as one state machine.                         *)
(*                                                                         *)
(* Time is a discrete clock in seconds.  Strings that the code compares by *)
(* prefix or suffix (request paths, the service prefix) are sequences of   *)
(* tokens; "/" is a token of its own, so strings.HasPrefix and             *)
(* strings.HasSuffix are prefix and suffix tests on sequences.             *)
(***************************************************************************)
EXTENDS Integers, Sequences, FiniteSets, TLC

(* ------------------------------ bounds -------------------------------- *)
\* horizon of the clock, in seconds
MaxTime == 15
\* seconds that pass in one step of the clock
TickLen == 5
\* the --ready-timeout value the proxy is started with, in seconds
ReadyTimeoutCfg == 2
\* largest CheckConfig.Timeout of the health checker, in seconds
MaxCheckTimeout == 5
\* largest CheckConfig.SuccessThreshold of the health checker
MaxThreshold == 2
\* intervals of the activity reporter that the clock covers
MaxReports == 2
\* login redirects followed (state values generated)
MaxLogins == 2
\* callbacks counted as accepted per client and state value
MaxAccepts == 2
\* capacity of the log buffer (--log-buffer-size)
LogCap == 2
\* lines appended to the log buffer
MaxAppends == 5
\* calls of MarkAppDeployed
MaxMarks == 3
\* calls of Manager.Start
MaxStarts == 2
\* lines the child writes while the supervisor is followed to its end
MaxDrained == 1
\* lines the child writes while a log stream is followed
MaxStreamed == 3
\* length of a long step of the clock, seconds
WaitLen == 100
\* characters of a command-line argument
MaxTokenLen == 6

(* ------------------------- program constants -------------------------- *)
\* interim.GracePeriod, seconds
GracePeriod == 10
\* Manager.Stop: time.After(10 * time.Second)
StopWait == 10
\* health.DefaultCheckConfig: InitialDelay, seconds
InitialDelay == 2
\* NewManager: default ReadyTimeout (5 minutes), seconds
ManagerReadyTimeout == 300
\* HandleGetLogs: the default and the cap of the lines parameter
DefaultLines == 100
MaxLines == 10000
\* ports of TestSubstitutePort
ExamplePort == 8888
QuotePort == 3000

\* startActivityReporter: the reporter's interval (5 minutes), seconds
ReportInterval == 300

StateInitializing == "initializing"
StateStarting == "starting"
StateRunning == "running"
StateFailed == "failed"
StateStopped == "stopped"
ProcessState ==
    {StateInitializing, StateStarting, StateRunning, StateFailed, StateStopped}

\* deploymentTime.IsZero(), and every other unset time.Time
Zero == -1

VARIABLES
    now,          \* wall clock
    authType,     \* config: "oauth" | "none"
    interimPageAuth, \* config: --interim-page-auth
    servicePrefix,   \* config: JUPYTERHUB_SERVICE_PREFIX without trailing "/"
    state,        \* Manager.state
    mu,           \* Manager.mu: "free" or the task that holds the write lock
    pending,      \* task -> the state it is about to pass to setState, or "none"
    child,        \* the child process: "none" | "alive" | "exited"
    exitErr,      \* cmd.Wait() reports an error (non-zero exit or signal)
    startedAt,    \* Manager.started
    stoppedAt,    \* Manager.stopped
    startPc,      \* Server.StartSubprocess / Manager.Start
    readyPc,      \* ready-check goroutine of Manager.Start
    waiterPc,     \* monitor goroutine of Manager.Start
    shutdownPc,   \* run()'s deferred Server.Shutdown and Manager.Stop
    stopAt,       \* when Stop started waiting
    rootCancelled,   \* root context of run() cancelled (first signal)
    mgrCancelled,    \* Manager.cancel() called
    sigterm,      \* SIGTERM was sent to the child
    sigkill,      \* SIGKILL was sent to the child
    deploymentTime,  \* interim.Handler.deploymentTime
    probeOK,      \* ReadyCheck has returned nil for this child
    runningAt,    \* first time state became Running
    last,         \* the last request handled and its response
    jar,          \* cookie jar of a browser: its state cookie and token cookie
    issued,       \* number of state values redirectToLogin has generated
    accepted,     \* client -> state value -> callbacks handleCallback accepted
    logBuf,       \* LogBuffer: ring (buffer), head (the element lb.buffer points
                  \* to), lines
    readers,      \* stream -> the OutputHandler call of its reader goroutine
    hist,         \* every entry passed to LogBuffer.Append, in call order
    clearedAt,    \* Len(hist) when LogBuffer.Clear last ran
    readyTimeout, \* config: --ready-timeout, seconds
    logFile,      \* LogBuffer.logFile: whether the temp file is there and
                  \* takes writes, and the lines that are in it
    hc,           \* a call of Checker.WaitUntilReady: its configuration, its
                  \* position, its locals, its contexts and its result
    probes,       \* the answer to every probe that call has made, in order; 0
                  \* for a request that failed
    keepAlive,    \* config: --keep-alive
    tracker,      \* activity.Tracker.lastActivity
    reporter,     \* the goroutine of Client.StartActivityReporter: its position
                  \* and its ticker
    notes,        \* every activity notification the reporter has sent, in order
    tickLog,      \* what the reporter found at every tick it has taken
    marks,        \* the time of every call of interim.Handler.MarkAppDeployed
    cmd,          \* run()'s cmd: the command line, the allocated port, the
                  \* environment, and what SubstitutePort made of it
    streamer,     \* the goroutine of ManagerWithLogs.StreamLogs: its position,
                  \* lastCheck, what it has sent on the channel, and how
                  \* many entries had been appended when it was started and
                  \* when it last polled
    getter        \* a call of Manager.GetUptime: whether it holds mu.RLock, and
                  \* the fields as they were when it took the lock

lifeVars == <<state, mu, pending, child, exitErr, startedAt, stoppedAt, startPc,
              readyPc, waiterPc, shutdownPc, stopAt, rootCancelled,
              mgrCancelled, sigterm, sigkill, deploymentTime, probeOK,
              runningAt>>
cfgVars == <<authType, interimPageAuth, servicePrefix, readyTimeout>>
webVars == <<jar, issued, accepted>>
logVars == <<logBuf, readers, hist, clearedAt, logFile>>
healthVars == <<hc, probes>>
activityVars == <<keepAlive, tracker, reporter, notes, tickLog>>
sideVars == <<healthVars, activityVars>>
deployVars == <<marks>>
builderVars == <<cmd>>
moreVars == <<getter, streamer>>
extraVars == <<deployVars, builderVars, moreVars>>
vars == <<now, cfgVars, extraVars, webVars, logVars, sideVars, lifeVars, last>>

Tasks == {"start", "ready", "waiter", "stop"}
\* a browser keeps the cookies it is sent and sends them back; a replaying
\* client re-sends a callback request it has recorded, cookies included
Clients == {"browser", "replay"}

Min(a, b) == IF a < b THEN a ELSE b

(* ------------------------- configuration ------------------------------ *)
\* run(): process.Config always carries a ReadyCheck
HasReadyCheck == TRUE

\* health.DefaultCheckConfig: Interval, seconds
ProbeInterval == 1

\* The ready-check goroutine gives up when the first of two deadlines passes:
\* Manager's readyCtx (ReadyTimeout, 5 minutes as run() leaves it unset) and
\* the prober's own timeout, which starts after its initial delay.
ReadyDeadline == Min(ManagerReadyTimeout, InitialDelay + readyTimeout)

\* the first probe is sent one interval after the initial delay
FirstProbe == InitialDelay + ProbeInterval

(* --------------------------- supervisor ------------------------------- *)
\* Manager.GetState / IsRunning take mu.RLock: they block while a writer
\* holds mu
CanRead == mu = "free"

\* sync.RWMutex: Lock is granted when no writer and no reader holds mu
CanWrite == mu = "free" /\ getter.pc # "rlocked"

IsRunning == state = StateRunning

\* variant: Start does not look at the state
StartBegin_NoCheck ==
    /\ startPc = "init"
    /\ CanWrite
    /\ state' = StateStarting
    /\ startPc' = "spawn"
    /\ UNCHANGED <<now, cfgVars, extraVars, sideVars, webVars, logVars, mu,
                   pending, child, exitErr, startedAt, stoppedAt, readyPc,
                   waiterPc, shutdownPc, stopAt, rootCancelled, mgrCancelled,
                   sigterm, sigkill, deploymentTime, probeOK, runningAt, last>>

\* Manager.Start, lines 88-94: refuse if Running ("process already
\* running"), else state = Starting
StartBegin ==
    /\ startPc = "init"
    /\ CanWrite
    /\ IF state = StateRunning
         THEN /\ startPc' = "refused"
              /\ UNCHANGED state
         ELSE /\ state' = StateStarting
              /\ startPc' = "spawn"
    /\ UNCHANGED <<now, cfgVars, extraVars, sideVars, webVars, logVars, mu, pending, child, exitErr, startedAt,
                   stoppedAt, readyPc, waiterPc, shutdownPc, stopAt,
                   rootCancelled, mgrCancelled, sigterm, sigkill,
                   deploymentTime, probeOK, runningAt, last>>

\* Manager.Start, lines 118-199: pipes, cmd.Start, the reader, ready-check
\* and monitor goroutines.  how: "ok", "pipeErr" (StdoutPipe/StderrPipe
\* fails) or "execErr" (cmd.Start fails, after m.started was written).
StartSpawn(how) ==
    /\ startPc = "spawn"
    /\ CASE how = "pipeErr" ->
              /\ pending' = [pending EXCEPT !["start"] = StateFailed]
              /\ startPc' = "setState"
              /\ UNCHANGED <<startedAt, child, readyPc, waiterPc>>
         [] how = "execErr" ->
              /\ startedAt' = now
              /\ pending' = [pending EXCEPT !["start"] = StateFailed]
              /\ startPc' = "setState"
              /\ UNCHANGED <<child, readyPc, waiterPc>>
         [] OTHER ->
              /\ CanWrite
              /\ startedAt' = now
              /\ child' = "alive"
              /\ IF HasReadyCheck
                   THEN /\ readyPc' = "probing"
                        /\ waiterPc' = "waiting"
                        /\ startPc' = "started"
                        /\ UNCHANGED pending
                   ELSE /\ pending' = [pending EXCEPT !["start"] = StateRunning]
                        /\ startPc' = "setState"
                        /\ UNCHANGED <<readyPc, waiterPc>>
    /\ UNCHANGED <<now, cfgVars, extraVars, sideVars, webVars, logVars, state, mu, exitErr, stoppedAt, shutdownPc,
                   stopAt, rootCancelled, mgrCancelled, sigterm, sigkill,
                   deploymentTime, probeOK, runningAt, last>>

\* variant: every call of MarkAppDeployed stamps the deployment time anew
MarkedAt_Overwrite(dt) == now

\* interim.Handler.MarkAppDeployed: the deployment time it leaves, given the
\* one it finds
MarkedAt(dt) == IF dt = Zero THEN now ELSE dt

\* interim.Handler.MarkAppDeployed, called by Server.StartSubprocess right
\* after Manager.Start returned nil
MarkAppDeployed ==
    /\ startPc = "started"
    /\ deploymentTime' = MarkedAt(deploymentTime)
    /\ marks' = Append(marks, now)
    /\ UNCHANGED <<builderVars, moreVars>>
    /\ startPc' = IF authType = "oauth" THEN "startReporter" ELSE "done"
    /\ UNCHANGED <<now, cfgVars, sideVars, webVars, logVars, state, mu,
                   pending, child, exitErr, startedAt,
                   stoppedAt, readyPc, waiterPc, shutdownPc, stopAt,
                   rootCancelled, mgrCancelled, sigterm, sigkill, probeOK,
                   runningAt, last>>

\* interim.Handler.MarkAppDeployed called once more, by any caller and at
\* any time
MarkAppDeployedAgain ==
    /\ Len(marks) < MaxMarks - 1
    /\ deploymentTime' = MarkedAt(deploymentTime)
    /\ marks' = Append(marks, now)
    /\ UNCHANGED <<builderVars, moreVars>>
    /\ UNCHANGED <<now, cfgVars, sideVars, webVars, logVars, state, mu,
                   pending, child, exitErr, startedAt, stoppedAt, startPc,
                   readyPc, waiterPc, shutdownPc, stopAt, rootCancelled,
                   mgrCancelled, sigterm, sigkill, probeOK, runningAt, last>>

\* variant: the ready-check goroutine reports Running whatever the probe said
ReadyResultState_AlwaysRunning(ok) == StateRunning
\* the state the ready-check goroutine sets for a ReadyCheck result
ReadyResultState(ok) == IF ok THEN StateRunning ELSE StateFailed

\* Manager.Start, lines 154-162: m.config.ReadyCheck(readyCtx) returns.
\* nil needs a probe answered by the live child; an error needs the deadline
\* to have passed or the root context to be cancelled.
ReadyCheckReturns(ok) ==
    /\ readyPc = "probing"
    /\ IF ok
         THEN /\ child = "alive"
              /\ now - startedAt >= FirstProbe
              /\ ~rootCancelled
         ELSE \/ rootCancelled
              \/ now - startedAt >= ReadyDeadline
    /\ probeOK' = (probeOK \/ ok)
    /\ pending' = [pending EXCEPT !["ready"] = ReadyResultState(ok)]
    /\ readyPc' = "setState"
    /\ UNCHANGED <<now, cfgVars, extraVars, sideVars, webVars, logVars, state, mu, child, exitErr, startedAt,
                   stoppedAt, startPc, waiterPc, shutdownPc, stopAt,
                   rootCancelled, mgrCancelled, sigterm, sigkill,
                   deploymentTime, runningAt, last>>

\* the child process ends: by itself, on SIGTERM, or killed (SIGKILL from
\* Stop or from exec.CommandContext when the supervisor context is cancelled)
ChildExits(err) ==
    /\ child = "alive"
    /\ (sigkill \/ mgrCancelled) => err
    /\ child' = "exited"
    /\ exitErr' = err
    /\ UNCHANGED <<now, cfgVars, extraVars, sideVars, webVars, logVars, state, mu, pending, startedAt, stoppedAt,
                   startPc, readyPc, waiterPc, shutdownPc, stopAt,
                   rootCancelled, mgrCancelled, sigterm, sigkill,
                   deploymentTime, probeOK, runningAt, last>>

\* Manager.Start, lines 183-195: the monitor's cmd.Wait() returns
WaiterWaitReturns ==
    /\ waiterPc = "waiting"
    /\ child = "exited"
    /\ pending' = [pending EXCEPT
                     !["waiter"] = IF exitErr THEN StateFailed ELSE StateStopped]
    /\ waiterPc' = "setState"
    /\ UNCHANGED <<now, cfgVars, extraVars, sideVars, webVars, logVars, state, mu, child, exitErr, startedAt,
                   stoppedAt, startPc, readyPc, shutdownPc, stopAt,
                   rootCancelled, mgrCancelled, sigterm, sigkill,
                   deploymentTime, probeOK, runningAt, last>>

\* Manager.Start, line 196: m.stopped = time.Now()
WaiterRecordStopped ==
    /\ waiterPc = "record"
    /\ stoppedAt' = now
    /\ waiterPc' = "done"
    /\ UNCHANGED <<now, cfgVars, extraVars, sideVars, webVars, logVars, state, mu, pending, child, exitErr, startedAt,
                   startPc, readyPc, shutdownPc, stopAt, rootCancelled,
                   mgrCancelled, sigterm, sigkill, deploymentTime, probeOK,
                   runningAt, last>>

\* Manager.setState: takes mu.Lock, writes state, unlocks.  Each caller then
\* goes on: Start returns its error or nil, the goroutines end, Stop runs its
\* deferred Unlock and returns.
SetState(t) ==
    /\ pending[t] # "none"
    /\ CanWrite
    /\ state' = pending[t]
    /\ pending' = [pending EXCEPT ![t] = "none"]
    /\ runningAt' = IF pending[t] = StateRunning /\ runningAt = Zero
                      THEN now ELSE runningAt
    /\ startPc' = IF t = "start"
                    THEN (IF pending[t] = StateRunning THEN "started"
                          ELSE "startFailed")
                    ELSE startPc
    /\ waiterPc' = IF t = "waiter" THEN "record"
                   ELSE IF t = "start" /\ pending[t] = StateRunning THEN "waiting"
                   ELSE waiterPc
    /\ readyPc' = IF t = "ready" THEN "done" ELSE readyPc
    /\ shutdownPc' = IF t = "stop" THEN "httpShutdown" ELSE shutdownPc
    /\ UNCHANGED <<now, cfgVars, extraVars, sideVars, webVars, logVars, mu, child, exitErr, startedAt, stoppedAt,
                   stopAt, rootCancelled, mgrCancelled, sigterm, sigkill,
                   deploymentTime, probeOK, last>>

(* ------------------------- strings and paths -------------------------- *)
\* strings.HasPrefix
HasPrefix(s, p) == Len(p) <= Len(s) /\ SubSeq(s, 1, Len(p)) = p

\* strings.HasSuffix
HasSuffix(s, p) ==
    Len(p) <= Len(s) /\ SubSeq(s, Len(s) - Len(p) + 1, Len(s)) = p

\* interim.InterimPath
InterimPath == <<"/", "_temp", "/", "jhub-app-proxy">>

\* OAuthMiddleware.callbackPath, "oauth_callback", with the "/" Wrap puts
\* before it
CallbackSuffix == <<"/", "oauth_callback">>

\* server.New: sharedOAuthMW is built iff needsOAuth
NeedsOAuth == authType = "oauth" \/ interimPageAuth

\* variant: the interim pages are protected in oauth mode only
ProtectInterim_OAuthOnly == authType = "oauth"

\* server.New: protectInterim
ProtectInterim == authType = "oauth" \/ interimPageAuth

\* server.New: interimBasePath, appRootPath, oauthCallbackPath ("" when the
\* proxy has no OAuth middleware)
InterimBasePath == servicePrefix \o InterimPath
AppRootPath == servicePrefix \o <<"/">>
OAuthCallbackPath == IF NeedsOAuth THEN servicePrefix \o CallbackSuffix ELSE << >>

\* LogsHandler.RegisterInterimRoutes[WithAuth]: the JSON endpoints
LogsAPIPaths ==
    {InterimBasePath \o <<"/", "api", "/", "logs">>,
     InterimBasePath \o <<"/", "api", "/", "logs", "/", "stats">>}

\* LogsHandler.RegisterInterimRoutes[WithAuth]: the static assets
StaticPaths == {InterimBasePath \o <<"/", "static", "/", "logs.css">>}

(* ------------------------------ requests ------------------------------ *)
\* A response: status code, the handler that wrote it (by), the branch of
\* Router.ServeHTTP that was taken (route), whether a token
\* of the request was validated by the Hub on the way (authed), and the
\* cookies it sets: token (the access token stored, or "none") and
\* clearState (the state cookie is deleted).
Resp(status, by) ==
    [status |-> status, by |-> by, route |-> "none", authed |-> FALSE,
     token |-> "none", newState |-> 0, clearState |-> FALSE]

\* the Hub's GET /user: the user a token belongs to, "none" when the Hub
\* does not answer 200
GetUser(tok) ==
    CASE tok = "good" -> "alice"
      [] tok = "admin" -> "root"
      [] OTHER -> "none"

\* OAuthMiddleware.getUser: the Hub answers 200 for the token
Validates(tok) == GetUser(tok) # "none"

\* OAuthMiddleware.redirectToLogin: state and next cookies, 302 to the Hub.
\* fresh is the random state value generated; crypto/rand.Read is taken to
\* succeed, so the 500 of lines 182-186 is left out.
RedirectToLogin(req) ==
    [Resp(302, "login") EXCEPT !.newState = req.fresh]

\* variant: handleCallback leaves the state cookie in place
HandleCallback_KeepState(req) ==
    IF ~req.code THEN Resp(400, "callback")
    ELSE IF req.stateCookie = -1 \/ req.stateCookie # req.stateParam
      THEN Resp(403, "callback")
    ELSE IF req.hub # "ok" THEN Resp(500, "callback")
    ELSE [Resp(302, "callback") EXCEPT !.token = "good"]

\* variant: handleCallback exchanges the code without looking at the state
HandleCallback_NoStateCheck(req) ==
    IF ~req.code THEN Resp(400, "callback")
    ELSE IF req.hub # "ok" THEN Resp(500, "callback")
    ELSE [Resp(302, "callback") EXCEPT !.token = "good", !.clearState = TRUE]

\* OAuthMiddleware.handleCallback.  req.code: the code parameter is present;
\* req.stateParam: the state parameter (0 = empty string); req.stateCookie:
\* the state cookie (-1 = no cookie, 0 = empty value); req.hub: how the
\* token exchange ends: "ok" (200 with a JSON body), "transportErr"
\* (http.DefaultClient.Do fails), "non200", "badJSON" (200, body not JSON).
HandleCallback(req) ==
    IF ~req.code THEN Resp(400, "callback")
    ELSE IF req.stateCookie = -1 \/ req.stateCookie # req.stateParam
      THEN Resp(403, "callback")
    ELSE IF req.hub # "ok" THEN Resp(500, "callback")
    ELSE [Resp(302, "callback") EXCEPT !.token = "good", !.clearState = TRUE]

\* OAuthMiddleware.Wrap(next): next is the response the wrapped handler
\* gives when it is called
Wrap(req, next) ==
    IF HasSuffix(req.path, CallbackSuffix) THEN HandleCallback(req)
    ELSE IF req.hdr # "none" /\ Validates(req.hdr)
      THEN [next EXCEPT !.authed = TRUE]
    ELSE IF req.cookie # "none" /\ Validates(req.cookie)
      THEN [next EXCEPT !.authed = TRUE]
    ELSE RedirectToLogin(req)

\* json.Marshal(user): the text of the JSON object of the user
Marshal(user) == <<"{", "name", ":", user, "}">>

\* variant: the value is added to the values the header has
HeaderSet_Add(values, v) == Append(values, v)

\* http.Header.Set: the values of the header afterwards
HeaderSet(values, v) == <<v>>

\* OAuthMiddleware.Wrap, maybeProxy: the values of X-Forwarded-User-Data on
\* the request handed to the wrapped handler; req.userData holds the values
\* the client sent
WrapUserData(req) ==
    IF req.hdr # "none" /\ Validates(req.hdr)
      THEN HeaderSet(req.userData, Marshal(GetUser(req.hdr)))
    ELSE HeaderSet(req.userData, Marshal(GetUser(req.cookie)))

\* variant: the grace period includes its last instant
IsInGracePeriod_Inclusive ==
    IF deploymentTime = Zero THEN FALSE
    ELSE now - deploymentTime <= GracePeriod

\* interim.Handler.isInGracePeriod
IsInGracePeriod ==
    IF deploymentTime = Zero THEN FALSE
    ELSE now - deploymentTime < GracePeriod

\* variant: the logs API is served in the grace period only
ShouldServeLogsAPI_GraceOnly == IsInGracePeriod
\* interim.Handler.ShouldServeLogsAPI
ShouldServeLogsAPI == IF ~IsRunning THEN TRUE ELSE IsInGracePeriod

\* interim.Handler.ServeHTTP
InterimServeHTTP ==
    IF IsInGracePeriod THEN Resp(200, "interimHTML")
    ELSE IF IsRunning THEN Resp(307, "interimRedirect")
    ELSE Resp(200, "interimHTML")

\* the ServeMux that server.New fills: exact patterns only, 404 otherwise
MuxServeHTTP(req) ==
    IF req.path \in LogsAPIPaths
      THEN (IF ProtectInterim /\ NeedsOAuth
              THEN Wrap(req, Resp(200, "logsAPI"))
              ELSE Resp(200, "logsAPI"))
    ELSE IF req.path \in StaticPaths THEN Resp(200, "static")
    ELSE IF NeedsOAuth /\ req.path = OAuthCallbackPath
      THEN Wrap(req, Resp(302, "callbackFallback"))
    ELSE IF req.path = InterimBasePath
      THEN (IF ProtectInterim /\ NeedsOAuth
              THEN Wrap(req, InterimServeHTTP)
              ELSE InterimServeHTTP)
    ELSE Resp(404, "mux404")

\* proxy.Handler.serve: the reverse proxy's answer.  A live child answers
\* (101 to a WebSocket upgrade); without one the proxy answers 502.
ProxyServe(req) ==
    IF child = "alive"
      THEN Resp(IF req.ws THEN 101 ELSE 200, "backend")
      ELSE Resp(502, "backend")

\* variant: the proxy handler without its OAuth wrapper
ProxyServeHTTP_NoWrap(req) == ProxyServe(req)
\* proxy.Handler.ServeHTTP: oauthMW is set iff authType is "oauth"
ProxyServeHTTP(req) ==
    IF authType = "oauth" THEN Wrap(req, ProxyServe(req)) ELSE ProxyServe(req)

\* variant: the prefix guard without the "/" after the prefix
ValidateServicePrefix_NoSlash(path) ==
    servicePrefix = << >> \/ HasPrefix(path, servicePrefix)
\* Router.validateServicePrefix
ValidateServicePrefix(path) ==
    ~(servicePrefix # << >> /\ ~HasPrefix(path, servicePrefix \o <<"/">>))

\* Router.handleInterimRoute
HandleInterimRoute(req) ==
    IF ShouldServeLogsAPI THEN MuxServeHTTP(req)
    ELSE Resp(307, "graceRedirect")

\* Router.handleAppStarting
HandleAppStarting(req) == InterimServeHTTP

\* Router.handleAppRunning
HandleAppRunning(req) == ProxyServeHTTP(req)

\* Router.ServeHTTP
RouterServeHTTP(req) ==
    IF OAuthCallbackPath # << >> /\ req.path = OAuthCallbackPath /\ ~IsRunning
      THEN [MuxServeHTTP(req) EXCEPT !.route = "oauth_local"]
    ELSE IF HasPrefix(req.path, InterimBasePath)
      THEN [HandleInterimRoute(req) EXCEPT !.route = "interim"]
    ELSE IF ~ValidateServicePrefix(req.path)
      THEN [Resp(404, "prefix404") EXCEPT !.route = "notfound"]
    ELSE IF ~IsRunning
      THEN [HandleAppStarting(req) EXCEPT !.route = "app"]
    ELSE [HandleAppRunning(req) EXCEPT !.route = "app"]

\* Router.ServeHTTP calls IsRunning (and so takes mu.RLock) on every branch
\* but the 404 of the prefix guard
ReadsState(path) ==
    \/ OAuthCallbackPath # << >> /\ path = OAuthCallbackPath
    \/ HasPrefix(path, InterimBasePath)
    \/ ValidateServicePrefix(path)

\* the request paths tried: under the configured prefix p, and outside it
PathsUnder(p) ==
    {p \o <<"/">>,
     p \o <<"/", "app">> \o CallbackSuffix,
     p \o CallbackSuffix,
     p \o InterimPath,
     p \o InterimPath \o <<"/", "api", "/", "logs">>,
     p \o InterimPath \o <<"/", "static", "/", "logs.css">>,
     p \o InterimPath \o <<"x">>,
     p \o InterimPath \o CallbackSuffix}

ForeignPaths(p) ==
    IF p = << >>
      THEN {<<"/", "svc", "/">>, <<"/", "svc">> \o InterimPath}
      ELSE {p, <<"/", "svc", "x", "/">>, <<"/">>, InterimPath}

\* header token and cookie token of a request: "none", "bad" or "good"
Creds == {<<"none", "none">>, <<"bad", "bad">>, <<"good", "none">>,
          <<"none", "good">>}

\* callback queries: <<code present, state parameter, state cookie, Hub>>
CallbackQueries ==
    {<<FALSE, 1, 1, "ok">>, <<TRUE, 1, -1, "ok">>, <<TRUE, 1, 2, "ok">>,
     <<TRUE, 1, 1, "non200">>, <<TRUE, 1, 1, "ok">>,
     <<TRUE, 1, 1, "transportErr">>, <<TRUE, 1, 1, "badJSON">>,
     <<TRUE, 0, 0, "ok">>, <<FALSE, 1, 2, "non200">>,
     <<TRUE, 1, 2, "transportErr">>}

Req(path, cred, ws, q) ==
    [path |-> path, hdr |-> cred[1], cookie |-> cred[2], ws |-> ws,
     code |-> q[1], stateParam |-> q[2], stateCookie |-> q[3], hub |-> q[4],
     fresh |-> 1]

NoQuery == <<FALSE, 0, -1, "ok">>

\* keeps the request set small: WebSocket upgrades go to the app root, a
\* callback query goes with a callback path and no token
Tried(p, req) ==
    /\ req.ws => req.path = p \o <<"/">>
    /\ IF HasSuffix(req.path, CallbackSuffix)
         THEN /\ <<req.code, req.stateParam, req.stateCookie, req.hub>> # NoQuery
              /\ req.hdr = "none" /\ req.cookie = "none"
         ELSE <<req.code, req.stateParam, req.stateCookie, req.hub>> = NoQuery

\* the requests a client may send to a proxy configured with prefix p
RequestsFor(p) ==
    {req \in {Req(path, cred, ws, q) :
                path \in PathsUnder(p) \cup ForeignPaths(p), cred \in Creds,
                ws \in BOOLEAN, q \in CallbackQueries \cup {NoQuery}} :
        Tried(p, req)}

RequestsNoPrefix == RequestsFor(<< >>)
RequestsSvc == RequestsFor(<<"/", "svc">>)
Requests == IF servicePrefix = << >> THEN RequestsNoPrefix ELSE RequestsSvc

NoRequest == [kind |-> "none"]

\* One request is handled by Router.ServeHTTP while the HTTP server is up.
\* Requests are observed one at a time: last holds the request and its
\* response, with the supervisor state it was routed on, until the response
\* has been written.
Handled(req, client) ==
    [kind |-> "http", req |-> req, resp |-> RouterServeHTTP(req),
     st |-> state, t |-> now, grace |-> IsInGracePeriod,
     alive |-> (child = "alive"), client |-> client]

ServeHTTP(req) ==
    /\ last.kind = "none"
    /\ shutdownPc # "done"
    /\ ReadsState(req.path) => CanRead
    /\ last' = Handled(req, "any")
    /\ UNCHANGED <<now, cfgVars, extraVars, sideVars, webVars, logVars, lifeVars>>

\* One request is handled, and the X-Forwarded-User-Data values that reach
\* the handler that answers it are observed: those OAuthMiddleware.Wrap set
\* if the request went through maybeProxy, those of the client otherwise
ServeHTTPForwarding(req) ==
    /\ last.kind = "none"
    /\ ReadsState(req.path) => CanRead
    /\ last' = [kind |-> "http", req |-> req, resp |-> RouterServeHTTP(req),
                st |-> state, t |-> now, grace |-> IsInGracePeriod,
                alive |-> (child = "alive"), client |-> "any",
                fwd |-> IF RouterServeHTTP(req).authed THEN WrapUserData(req)
                        ELSE req.userData]
    /\ UNCHANGED <<now, cfgVars, extraVars, sideVars, webVars, logVars,
                   lifeVars>>

\* requests with and without tokens that carry X-Forwarded-User-Data values
\* of the client's making
ForwardRequests ==
    {[path |-> path, hdr |-> h, cookie |-> c, ws |-> FALSE, code |-> FALSE,
      stateParam |-> 0, stateCookie |-> -1, hub |-> "ok", fresh |-> 1,
      userData |-> ud] :
        path \in {AppRootPath, InterimBasePath},
        h \in {"none", "bad", "good", "admin"},
        c \in {"none", "bad", "good", "admin"},
        ud \in {<< >>, <<Marshal("root")>>, <<"x", Marshal("root")>>}}

\* Router.ServeHTTP returns
ResponseWritten ==
    /\ last.kind # "none"
    /\ last' = NoRequest
    /\ UNCHANGED <<now, cfgVars, extraVars, sideVars, webVars, logVars, lifeVars>>

(* ----------------------------- log buffer ----------------------------- *)
Streams == {"stdout", "stderr"}

\* a ring element whose Value is nil
NoEntry == [ts |-> -1, stream |-> "none", line |-> 0]

\* container/ring: ring.New(capacity) and Ring.Next
NewRing == [i \in 0..(LogCap - 1) |-> NoEntry]
RingNext(i) == (i + 1) % LogCap

\* process.NewLogBuffer
NewLogBuffer == [ring |-> NewRing, head |-> 0, lines |-> 0]

\* os.CreateTemp in NewLogBuffer: logFile stays nil if it fails
CreateTemp(how) ==
    [fd |-> IF how = "ok" THEN "open" ELSE "nil", lines |-> << >>]

\* fmt.Sprintf("[%s] [%s] %s\n", ...) in LogBuffer.Append
LogLine(entry) ==
    <<"[", entry.ts, "]", " ", "[", entry.stream, "]", " ", entry.line, "\n">>

\* variant: the file is written from its start
FileAppend_Truncate(f, entry) ==
    IF f.fd = "open" THEN [f EXCEPT !.lines = <<LogLine(entry)>>] ELSE f

\* LogBuffer.Append, lines 396-410: the line is written to the file if there
\* is one; a write that fails is reported on stderr and leaves no line
FileAppend(f, entry) ==
    IF f.fd = "open" THEN [f EXCEPT !.lines = Append(@, LogLine(entry))] ELSE f

\* LogBuffer.Append, lines 390-393: the ring
LogBufferAppend(buf, entry) ==
    [ring |-> [buf.ring EXCEPT ![buf.head] = entry],
     head |-> RingNext(buf.head),
     lines |-> buf.lines + 1]

\* LogBuffer.Clear
Clear(buf) == NewLogBuffer

\* "available" of GetRecent, GetSince and GetStats
Available(buf) == IF buf.lines > LogCap THEN LogCap ELSE buf.lines

\* the loop of GetRecent/GetSince that looks for the first non-nil element
RECURSIVE FindStart(_, _, _)
FindStart(buf, i, start) ==
    IF i >= LogCap THEN start
    ELSE IF buf.ring[start] = NoEntry
      THEN FindStart(buf, i + 1, RingNext(start))
    ELSE start

\* the collecting loop of GetRecent/GetSince
RECURSIVE Collect(_, _, _, _)
Collect(buf, i, current, entries) ==
    IF i >= Available(buf) THEN entries
    ELSE Collect(buf, i + 1, RingNext(current),
                 IF buf.ring[current] # NoEntry
                   THEN entries \o <<buf.ring[current]>> ELSE entries)

Buffered(buf) ==
    Collect(buf, 0,
            IF Available(buf) < LogCap THEN FindStart(buf, 0, buf.head)
            ELSE buf.head,
            << >>)

LastN(seq, n) ==
    IF Len(seq) > n THEN SubSeq(seq, Len(seq) - n + 1, Len(seq)) ELSE seq

\* variant: GetRecent keeps the first n entries collected
GetRecent_FirstN(buf, n) ==
    LET n1 == IF n <= 0 \/ n > LogCap THEN LogCap ELSE n
        n2 == IF n1 > Available(buf) THEN Available(buf) ELSE n1
    IN SubSeq(Buffered(buf), 1, Min(n2, Len(Buffered(buf))))

\* LogBuffer.GetRecent
GetRecent(buf, n) ==
    LET n1 == IF n <= 0 \/ n > LogCap THEN LogCap ELSE n
        n2 == IF n1 > Available(buf) THEN Available(buf) ELSE n1
    IN LastN(Buffered(buf), n2)

\* LogBuffer.GetSince
GetSince(buf, since) ==
    LET After(e) == e.ts > since IN SelectSeq(Buffered(buf), After)

\* LogBuffer.GetByStream
GetByStream(buf, stream, n) ==
    LET Of(e) == e.stream = stream
        filtered == SelectSeq(GetRecent(buf, -1), Of)
    IN IF n > 0 /\ Len(filtered) > n THEN LastN(filtered, n) ELSE filtered

\* LogBuffer.GetStats
GetStats(buf) ==
    [total |-> buf.lines, buffered |-> Available(buf), capacity |-> LogCap,
     full |-> buf.lines >= LogCap]

\* readers whose OutputHandler has built its entry and not yet appended it
Stamped == {str \in Streams : readers[str].pc = "stamped"}

\* Manager.streamOutput read a line of the stream and calls the
\* OutputHandler of NewManagerWithLogs, which builds the LogEntry with
\* time.Now() before it calls Append
OutputHandlerStamp(str) ==
    /\ startPc \in {"started", "done"}
    /\ startedAt # Zero
    /\ readers[str].pc = "idle"
    /\ Len(hist) + Cardinality(Stamped) < MaxAppends
    /\ readers' = [readers EXCEPT ![str] = [pc |-> "stamped", ts |-> now]]
    /\ UNCHANGED <<now, cfgVars, extraVars, sideVars, webVars, lifeVars, last, logBuf, hist,
                   clearedAt, logFile>>

\* ... and LogBuffer.Append runs under lb.mu
OutputHandlerAppend(str) ==
    /\ readers[str].pc = "stamped"
    /\ LET entry == [ts |-> readers[str].ts, stream |-> str,
                     line |-> Len(hist) + 1]
       IN /\ logBuf' = LogBufferAppend(logBuf, entry)
          /\ logFile' = FileAppend(logFile, entry)
          /\ hist' = hist \o <<entry>>
    /\ readers' = [readers EXCEPT ![str] = [pc |-> "idle", ts |-> 0]]
    /\ UNCHANGED <<now, cfgVars, extraVars, sideVars, webVars, lifeVars, last, clearedAt>>

\* variant: the entry is filed under stdout
ErrorLogEntry_Stdout(line) == [ts |-> now, stream |-> "stdout", line |-> line]

\* ManagerWithLogs.AddErrorLog: the entry it appends
ErrorLogEntry(line) == [ts |-> now, stream |-> "stderr", line |-> line]

\* Server.StartSubprocess, lines 206-210: Manager.Start returned an error;
\* the error and the command are added to the log buffer, and
\* StartSubprocess returns
StartFailed ==
    /\ startPc \in {"startFailed", "refused"}
    /\ LET e1 == ErrorLogEntry(Len(hist) + 1)
           e2 == ErrorLogEntry(Len(hist) + 2)
       IN /\ logBuf' = LogBufferAppend(LogBufferAppend(logBuf, e1), e2)
          /\ logFile' = FileAppend(FileAppend(logFile, e1), e2)
          /\ hist' = hist \o <<e1, e2>>
    /\ startPc' = "done"
    /\ UNCHANGED <<now, cfgVars, extraVars, sideVars, webVars, readers, clearedAt, state,
                   mu, pending, child, exitErr, startedAt, stoppedAt, readyPc,
                   waiterPc, shutdownPc, stopAt, rootCancelled, mgrCancelled,
                   sigterm, sigkill, deploymentTime, probeOK, runningAt, last>>

\* ManagerWithLogs.ClearLogs
ClearLogs ==
    /\ logBuf' = Clear(logBuf)
    /\ clearedAt' = Len(hist)
    /\ UNCHANGED <<now, cfgVars, extraVars, sideVars, webVars, lifeVars, last, readers, hist,
                   logFile>>

\* StreamLogs has not been called
NoStream == [pc |-> "off"]

\* ManagerWithLogs.StreamLogs, lines 138-155: the channel, startTime, and
\* the goroutine with lastCheck = startTime
StreamLogs ==
    /\ streamer.pc = "off"
    /\ streamer' = [pc |-> "open", lastCheck |-> now, out |-> << >>,
                    opened |-> Len(hist), polled |-> Len(hist)]
    /\ UNCHANGED <<now, cfgVars, deployVars, builderVars, getter, sideVars,
                   webVars, logVars, lifeVars, last>>

\* lines 164-168: lastCheck after the entries of a poll have been sent
RECURSIVE LastCheckAfter(_, _)
LastCheckAfter(lastCheck, entries) ==
    IF entries = << >> THEN lastCheck
    ELSE LastCheckAfter(IF Head(entries).ts > lastCheck
                          THEN Head(entries).ts ELSE lastCheck,
                        Tail(entries))

\* case <-ticker.C, lines 160-172: GetLogsSince(lastCheck), and every entry
\* it returned is sent on the channel (the receiver keeps reading)
StreamPoll ==
    /\ streamer.pc = "open"
    /\ LET newLogs == GetSince(logBuf, streamer.lastCheck)
       IN streamer' = [streamer EXCEPT
                          !.out = @ \o newLogs,
                          !.lastCheck = LastCheckAfter(@, newLogs),
                          !.polled = Len(hist)]
    /\ UNCHANGED <<now, cfgVars, deployVars, builderVars, getter, sideVars,
                   webVars, logVars, lifeVars, last>>

\* case <-ctx.Done(): the goroutine returns and its deferred close(ch) runs
StreamCancelled ==
    /\ streamer.pc = "open"
    /\ streamer' = [streamer EXCEPT !.pc = "closed"]
    /\ UNCHANGED <<now, cfgVars, deployVars, builderVars, getter, sideVars,
                   webVars, logVars, lifeVars, last>>

\* the file system stops taking writes to the temp file (the disk is full):
\* from now on WriteString returns an error
WriteFails ==
    /\ logFile.fd = "open"
    /\ logFile' = [logFile EXCEPT !.fd = "failing"]
    /\ UNCHANGED <<now, cfgVars, extraVars, sideVars, webVars, lifeVars, last,
                   logBuf, readers, hist, clearedAt>>

\* one call of a read method of the log buffer, with its result
LogQuery(q) ==
    /\ last.kind = "none"
    /\ last' = [kind |-> "log", q |-> q,
                out |-> CASE q.op = "recent" -> GetRecent(logBuf, q.n)
                          [] q.op = "since" -> GetSince(logBuf, q.since)
                          [] q.op = "byStream" ->
                                 GetByStream(logBuf, q.stream, q.n)
                          [] OTHER -> GetStats(logBuf)]
    /\ UNCHANGED <<now, cfgVars, extraVars, sideVars, webVars, logVars, lifeVars>>

LogQueries ==
    {[op |-> "recent", n |-> n] : n \in -1..(LogCap + 1)}
    \cup {[op |-> "since", since |-> t] : t \in {-1, 0, TickLen}}
    \cup {[op |-> "byStream", stream |-> str, n |-> n] :
             str \in Streams, n \in {0, 1}}
    \cup {[op |-> "stats"]}

\* calls of Server.StartSubprocess that have returned: each one has called
\* MarkAppDeployed or has added its two error lines to the log buffer
StartsDone == Len(marks) + (Len(hist) \div 2)

\* Server.StartSubprocess and with it Manager.Start are called once more,
\* after the previous call has returned
StartAgain ==
    /\ startPc = "done"
    /\ StartsDone < MaxStarts
    /\ startPc' = "init"
    /\ UNCHANGED <<now, cfgVars, extraVars, sideVars, webVars, logVars, state,
                   mu, pending, child, exitErr, startedAt, stoppedAt, readyPc,
                   waiterPc, shutdownPc, stopAt, rootCancelled, mgrCancelled,
                   sigterm, sigkill, deploymentTime, probeOK, runningAt, last>>

(* ------------------------------- getters ------------------------------- *)
\* Manager.GetUptime, lines 306-307: m.mu.RLock()
GetUptimeRLock ==
    /\ getter.pc = "idle"
    /\ CanRead
    /\ getter' = [pc |-> "rlocked", state |-> state, started |-> startedAt,
                  stopped |-> stoppedAt]
    /\ UNCHANGED <<now, cfgVars, deployVars, builderVars, sideVars, webVars,
                   logVars, lifeVars, last, streamer>>

\* Manager.GetUptime, lines 309-317: what it returns from the fields it reads
Uptime ==
    IF startedAt = Zero THEN 0
    ELSE IF stoppedAt = Zero THEN now - startedAt
    ELSE stoppedAt - startedAt

\* Manager.GetUptime, lines 309-317 and the deferred RUnlock
GetUptimeReturn ==
    /\ getter.pc = "rlocked"
    /\ last.kind = "none"
    /\ last' = [kind |-> "uptime", uptime |-> Uptime]
    /\ getter' = [pc |-> "idle"]
    /\ UNCHANGED <<now, cfgVars, deployVars, builderVars, sideVars, webVars,
                   logVars, lifeVars, streamer>>

(* ------------------------------- strings ------------------------------- *)
\* A string is the sequence of its characters; a word without any of the
\* characters { } - ' " / is one element.
DigitChars == <<"0", "1", "2", "3", "4", "5", "6", "7", "8", "9">>

\* fmt.Sprintf("%d", n) for n >= 0
RECURSIVE Digits(_)
Digits(n) ==
    IF n < 10 THEN <<DigitChars[n + 1]>>
    ELSE Append(Digits(n \div 10), DigitChars[(n % 10) + 1])

(* ------------------------------ logs API ------------------------------- *)
\* the value of a decimal digit
DigitValue(c) == CHOOSE d \in 0..9 : DigitChars[d + 1] = c

IsDigit(c) == \E d \in 0..9 : DigitChars[d + 1] = c

\* the number a non-empty string of digits denotes
RECURSIVE Decimal(_)
Decimal(s) ==
    IF Len(s) = 1 THEN DigitValue(s[1])
    ELSE 10 * Decimal(SubSeq(s, 1, Len(s) - 1)) + DigitValue(s[Len(s)])

\* strconv.Atoi: an optional sign and at least one digit, nothing else
Atoi(s) ==
    LET signed == Len(s) > 0 /\ s[1] \in {"+", "-"}
        digits == IF signed THEN Tail(s) ELSE s
    IN IF Len(digits) > 0 /\ \A i \in 1..Len(digits) : IsDigit(digits[i])
       THEN [err |-> FALSE,
             n |-> IF signed /\ s[1] = "-" THEN 0 - Decimal(digits)
                   ELSE Decimal(digits)]
       ELSE [err |-> TRUE, n |-> 0]

\* variant: the number of lines asked for is not capped
EffectiveLines_NoCap(linesStr) ==
    IF linesStr # << >> /\ ~Atoi(linesStr).err /\ Atoi(linesStr).n > 0
    THEN Atoi(linesStr).n
    ELSE DefaultLines

\* LogsHandler.HandleGetLogs: the lines query parameter
EffectiveLines(linesStr) ==
    IF linesStr # << >> /\ ~Atoi(linesStr).err /\ Atoi(linesStr).n > 0
    THEN IF Atoi(linesStr).n > MaxLines THEN MaxLines ELSE Atoi(linesStr).n
    ELSE DefaultLines

\* LogsHandler.HandleGetLogs: the response to a request with the query
\* parameters lines and stream ("" when missing)
HandleGetLogs(method, linesStr, stream) ==
    IF method # "GET" THEN [status |-> 405]
    ELSE LET lines == EffectiveLines(linesStr)
         IN [status |-> 200,
             logs |-> IF stream \in {"stdout", "stderr"}
                      THEN GetByStream(logBuf, stream, lines)
                      ELSE GetRecent(logBuf, lines),
             stats |-> GetStats(logBuf),
             query |-> [lines |-> lines, stream |-> stream]]

\* one request to /api/logs, with its response
GetLogsRequest(q) ==
    /\ last.kind = "none"
    /\ last' = [kind |-> "log", q |-> q,
                out |-> HandleGetLogs(q.method, q.lines.text, q.stream)]
    /\ UNCHANGED <<now, cfgVars, extraVars, sideVars, webVars, logVars,
                   lifeVars>>

\* the sign and the digits of an integer, as a client writes it
Signed(n) == IF n < 0 THEN <<"-">> \o Digits(0 - n) ELSE Digits(n)

\* values of the lines parameter: what the client sends and what it means
LinesParams ==
    {[text |-> << >>, means |-> "missing", val |-> 0],
     [text |-> <<"a">>, means |-> "text", val |-> 0],
     [text |-> <<"1", "a">>, means |-> "text", val |-> 0],
     [text |-> <<"-">>, means |-> "text", val |-> 0],
     [text |-> <<"+", "1">>, means |-> "number", val |-> 1]}
    \cup {[text |-> Signed(n), means |-> "number", val |-> n] :
             n \in {-1, 0, 1, LogCap, LogCap + 1, DefaultLines,
                     MaxLines - 1, MaxLines, MaxLines + 1}}

GetLogsQueries ==
    {[op |-> "getLogs", method |-> m, lines |-> l, stream |-> str] :
        m \in {"GET"}, l \in LinesParams,
        str \in {"", "stdout", "stderr", "other"}}
    \cup {[op |-> "getLogs", method |-> "POST",
           lines |-> [text |-> << >>, means |-> "missing", val |-> 0],
           stream |-> ""]}

(* --------------------------- command builder --------------------------- *)
\* strings.ReplaceAll for a non-empty old: the non-overlapping occurrences,
\* from the left
RECURSIVE ReplaceAll(_, _, _)
ReplaceAll(s, old, new) ==
    IF Len(s) < Len(old) THEN s
    ELSE IF SubSeq(s, 1, Len(old)) = old
         THEN new \o ReplaceAll(SubSeq(s, Len(old) + 1, Len(s)), old, new)
         ELSE <<s[1]>> \o ReplaceAll(Tail(s), old, new)

PortPlaceholder == <<"{", "port", "}">>
DashPlaceholder == <<"{", "-", "}">>
DashDashPlaceholder == <<"{", "-", "-", "}">>

\* SubstitutePort: the test that a string is wrapped in the quote q, and
\* the slice that drops the pair
StripQuotes(processed, q) ==
    IF /\ Len(processed) >= 2
       /\ processed[1] = q
       /\ processed[Len(processed)] = q
    THEN SubSeq(processed, 2, Len(processed) - 1)
    ELSE processed

\* variant: the port placeholder is left alone
ReplacePlaceholders_NoPort(arg, portStr) ==
    LET b == ReplaceAll(arg, DashPlaceholder, <<"-">>)
    IN ReplaceAll(b, DashDashPlaceholder, <<"-", "-">>)

\* SubstitutePort: the three strings.ReplaceAll of its loop
ReplacePlaceholders(arg, portStr) ==
    LET a == ReplaceAll(arg, PortPlaceholder, portStr)
        b == ReplaceAll(a, DashPlaceholder, <<"-">>)
    IN ReplaceAll(b, DashDashPlaceholder, <<"-", "-">>)

\* SubstitutePort: the body of its loop, for one argument
SubstituteArg(arg, portStr) ==
    LET c == ReplacePlaceholders(arg, portStr)
        d == StripQuotes(c, "'")
    IN StripQuotes(d, "\"")

\* command.SubstitutePort
SubstitutePort(command, allocatedPort) ==
    [i \in 1..Len(command) |->
        SubstituteArg(command[i], Digits(allocatedPort))]

NoCommand == [pc |-> "idle"]

\* run(): cmd = command.SubstitutePort(cmd, subprocessPort)
Substitute ==
    /\ cmd.pc = "built"
    /\ cmd' = [cmd EXCEPT !.pc = "substituted",
                          !.out = SubstitutePort(cmd.argv, cmd.port)]
    /\ UNCHANGED <<now, cfgVars, deployVars, moreVars, sideVars, webVars,
                   logVars, lifeVars, last>>

\* SubstitutePort applied to its own result
SubstituteAgain ==
    /\ cmd.pc = "substituted"
    /\ cmd' = [cmd EXCEPT !.pc = "again",
                          !.again = SubstitutePort(cmd.out, cmd.port)]
    /\ UNCHANGED <<now, cfgVars, deployVars, moreVars, sideVars, webVars,
                   logVars, lifeVars, last>>

\* the characters arguments are made of
Alphabet == {"{", "}", "-", "'", "\"", "port"}

\* every string of at most n characters
RECURSIVE Strings(_)
Strings(n) ==
    IF n = 0 THEN {<< >>}
    ELSE LET shorter == Strings(n - 1)
         IN shorter \cup {Append(w, a) :
                              w \in {v \in shorter : Len(v) = n - 1},
                              a \in Alphabet}

\* TestSubstitutePort: "substitute dash placeholders" and "substitute
\* root_path only"
ExampleCommands ==
    {<< <<"myapp">>, <<"{", "-", "}", "p">>, <<"{", "port", "}">>,
        <<"{", "-", "-", "}", "root", "-", "path">>,
        <<"{", "root_path", "}">> >>,
     << <<"myapp">>, <<"-", "-", "root", "-", "path">>,
        <<"{", "root_path", "}">> >>}

\* JUPYTERHUB_SERVICE_PREFIX in the environment of the proxy: unset, with and
\* without its leading slash
PrefixEnvs ==
    {<< >>, <<"/", "user", "/", "test", "/">>, <<"user", "/", "test", "/">>}

\* what run() hands to SubstitutePort
BuilderInputs ==
    {[argv |-> <<t>>, port |-> QuotePort, env |-> << >>] :
        t \in Strings(MaxTokenLen)}
    \cup {[argv |-> a, port |-> p, env |-> e] :
             a \in ExampleCommands, p \in {QuotePort, ExamplePort},
             e \in PrefixEnvs}

(* --------------------- the OAuth round trip of a client ---------------- *)
\* what the response's Set-Cookie headers do to a browser's cookie jar:
\* redirectToLogin stores the state cookie, handleCallback deletes it
\* (MaxAge -1) and stores the token cookie
SetCookies(resp) ==
    [state |-> IF resp.clearState THEN -1
               ELSE IF resp.newState # 0 THEN resp.newState
               ELSE jar.state,
     token |-> IF resp.token # "none" THEN resp.token ELSE jar.token]

\* handleCallback accepted the callback: it stored the token cookie
Accepts(resp) == resp.by = "callback" /\ resp.status = 302

Count(obs) ==
    IF Accepts(obs.resp)
      THEN [accepted EXCEPT ![obs.client][obs.req.stateParam] = @ + 1]
      ELSE accepted

\* the browser opens a page with the cookies of its jar; rand.Read gives
\* redirectToLogin a state value never generated before
BrowserVisit(path) ==
    /\ last.kind = "none"
    /\ shutdownPc # "done"
    /\ issued < MaxLogins
    /\ ReadsState(path) => CanRead
    /\ LET req == [Req(path, <<"none", jar.token>>, FALSE, NoQuery)
                     EXCEPT !.fresh = issued + 1, !.stateCookie = jar.state]
           obs == Handled(req, "browser")
       IN /\ last' = obs
          /\ jar' = SetCookies(obs.resp)
          /\ issued' = IF obs.resp.newState # 0 THEN issued + 1 ELSE issued
    /\ UNCHANGED <<now, cfgVars, extraVars, sideVars, logVars, accepted, lifeVars>>

\* a callback request for the state value S: the browser follows the Hub's
\* redirect with the cookies of its jar; the replaying client sends the
\* state cookie that was issued with S
Callback(client, S, code, hub) ==
    /\ last.kind = "none"
    /\ shutdownPc # "done"
    /\ S \in 1..issued
    /\ accepted[client][S] < MaxAccepts
    /\ ReadsState(servicePrefix \o CallbackSuffix) => CanRead
    /\ LET cookie == IF client = "browser" THEN jar.state ELSE S
           req == [Req(servicePrefix \o CallbackSuffix, <<"none", "none">>,
                       FALSE, <<code, S, cookie, hub>>)
                     EXCEPT !.fresh = issued + 1]
           obs == Handled(req, client)
       IN /\ last' = obs
          /\ jar' = IF client = "browser" THEN SetCookies(obs.resp) ELSE jar
          /\ accepted' = Count(obs)
    /\ UNCHANGED <<now, cfgVars, extraVars, sideVars, logVars, issued, lifeVars>>

(* ----------------------------- shutdown ------------------------------- *)
\* SetupSignalHandling: the first SIGINT/SIGTERM cancels the root context;
\* run() returns from <-ctx.Done() and its deferred srv.Shutdown() runs
Signal ==
    /\ ~rootCancelled
    /\ shutdownPc = "idle"
    /\ rootCancelled' = TRUE
    /\ shutdownPc' = "shutdown"
    /\ UNCHANGED <<now, cfgVars, extraVars, sideVars, webVars, logVars, state, mu, pending, child, exitErr, startedAt,
                   stoppedAt, startPc, readyPc, waiterPc, stopAt, mgrCancelled,
                   sigterm, sigkill, deploymentTime, probeOK, runningAt, last>>

\* Server.Shutdown, lines 238-243: Stop is called only if IsRunning()
ShutdownCheck ==
    /\ shutdownPc = "shutdown"
    /\ CanRead
    /\ shutdownPc' = IF IsRunning THEN "stopLock" ELSE "httpShutdown"
    /\ UNCHANGED <<now, cfgVars, extraVars, sideVars, webVars, logVars, state, mu, pending, child, exitErr, startedAt,
                   stoppedAt, startPc, readyPc, waiterPc, stopAt, rootCancelled,
                   mgrCancelled, sigterm, sigkill, deploymentTime, probeOK,
                   runningAt, last>>

\* Manager.Stop, lines 204-223: mu.Lock (kept until Stop returns), the
\* cmd == nil check, SIGTERM, and the goroutine that calls cmd.Wait()
StopLock ==
    /\ shutdownPc = "stopLock"
    /\ CanWrite
    /\ IF child = "none"
         THEN /\ shutdownPc' = "httpShutdown"
              /\ UNCHANGED <<mu, sigterm, stopAt>>
         ELSE /\ mu' = "stop"
              /\ sigterm' = (sigterm \/ child = "alive")
              /\ stopAt' = now
              /\ shutdownPc' = "stopWait"
    /\ UNCHANGED <<now, cfgVars, extraVars, sideVars, webVars, logVars, state, pending, child, exitErr, startedAt,
                   stoppedAt, startPc, readyPc, waiterPc, rootCancelled,
                   mgrCancelled, sigkill, deploymentTime, probeOK, runningAt,
                   last>>

\* Manager.Stop, lines 225-238: the select.  timedOut: the 10 s timer fired
\* and Process.Kill() is called (it fails on a process that has ended, and
\* Stop then returns that error); otherwise cmd.Wait() delivered on done.
StopSelect(timedOut) ==
    /\ shutdownPc = "stopWait"
    /\ IF timedOut
         THEN /\ now - stopAt >= StopWait
              /\ IF child = "alive"
                   THEN /\ sigkill' = TRUE
                        /\ shutdownPc' = "stopCancel"
                        /\ UNCHANGED mu
                   ELSE /\ mu' = "free"
                        /\ shutdownPc' = "httpShutdown"
                        /\ UNCHANGED sigkill
         ELSE /\ child = "exited"
              /\ shutdownPc' = "stopCancel"
              /\ UNCHANGED <<mu, sigkill>>
    /\ UNCHANGED <<now, cfgVars, extraVars, sideVars, webVars, logVars, state, pending, child, exitErr, startedAt,
                   stoppedAt, startPc, readyPc, waiterPc, stopAt, rootCancelled,
                   mgrCancelled, sigterm, deploymentTime, probeOK, runningAt,
                   last>>

\* Manager.Stop, lines 240-241: m.cancel(), then the call of
\* m.setState(StateStopped), made while Stop still holds mu
StopCancel ==
    /\ shutdownPc = "stopCancel"
    /\ mgrCancelled' = TRUE
    /\ pending' = [pending EXCEPT !["stop"] = StateStopped]
    /\ shutdownPc' = "stopSetState"
    /\ UNCHANGED <<now, cfgVars, extraVars, sideVars, webVars, logVars, state, mu, child, exitErr, startedAt,
                   stoppedAt, startPc, readyPc, waiterPc, stopAt, rootCancelled,
                   sigterm, sigkill, deploymentTime, probeOK, runningAt, last>>

\* Server.Shutdown, lines 245-250: httpServer.Shutdown
HTTPShutdown ==
    /\ shutdownPc = "httpShutdown"
    /\ shutdownPc' = "done"
    /\ UNCHANGED <<now, cfgVars, extraVars, sideVars, webVars, logVars, state, mu, pending, child, exitErr, startedAt,
                   stoppedAt, startPc, readyPc, waiterPc, stopAt, rootCancelled,
                   mgrCancelled, sigterm, sigkill, deploymentTime, probeOK,
                   runningAt, last>>

(* ------------------------------- clock -------------------------------- *)
\* TickLen seconds pass.  The clock's origin is the spawn of the child: no
\* timer of the program starts earlier.
Tick ==
    /\ now + TickLen <= MaxTime
    /\ startPc \notin {"init", "spawn"}
    /\ now' = now + TickLen
    /\ UNCHANGED <<cfgVars, extraVars, sideVars, webVars, logVars, lifeVars, last>>

\* the reporter before Server.StartSubprocess starts it; --keep-alive has
\* its default
ReporterOff == [pc |-> "off", why |-> "none", tickC |-> FALSE, tickerStart |-> 0]

ActivityIdle ==
    /\ keepAlive = TRUE
    /\ tracker = Zero
    /\ reporter = ReporterOff
    /\ notes = << >>
    /\ tickLog = << >>

\* MarkAppDeployed has not been called
\* nothing but the proxy itself is modelled
MoreIdle ==
    /\ getter = [pc |-> "idle"]
    /\ streamer = NoStream
    /\ logFile = CreateTemp("ok")

ExtraIdle ==
    /\ marks = << >>
    /\ cmd = NoCommand
    /\ MoreIdle

\* no call of WaitUntilReady is modelled
HealthIdle ==
    /\ hc = [pc |-> "idle"]
    /\ probes = << >>

\* the state after run() has built the manager and the server, before the
\* goroutine of StartSubprocess has run
InitLife ==
    /\ now = 0
    /\ state = StateInitializing
    /\ mu = "free"
    /\ pending = [t \in Tasks |-> "none"]
    /\ child = "none"
    /\ exitErr = FALSE
    /\ startedAt = Zero
    /\ stoppedAt = Zero
    /\ startPc = "init"
    /\ readyPc = "idle"
    /\ waiterPc = "idle"
    /\ shutdownPc = "idle"
    /\ stopAt = Zero
    /\ rootCancelled = FALSE
    /\ mgrCancelled = FALSE
    /\ sigterm = FALSE
    /\ sigkill = FALSE
    /\ deploymentTime = Zero
    /\ probeOK = FALSE
    /\ runningAt = Zero
    /\ last = NoRequest
    /\ jar = [state |-> -1, token |-> "none"]
    /\ issued = 0
    /\ accepted = [c \in Clients |-> [S \in 1..MaxLogins |-> 0]]
    /\ logBuf = NewLogBuffer
    /\ readers = [str \in Streams |-> [pc |-> "idle", ts |-> 0]]
    /\ hist = << >>
    /\ clearedAt = 0

\* the default deployment: --authtype oauth behind a Hub service prefix
Init ==
    /\ authType = "oauth"
    /\ interimPageAuth = FALSE
    /\ servicePrefix = <<"/", "svc">>
    /\ readyTimeout = ReadyTimeoutCfg
    /\ InitLife
    /\ HealthIdle
    /\ ActivityIdle
    /\ ExtraIdle

\* the default deployment with a short --ready-timeout, one of five minutes
\* and a longer one
ReadyTimeouts ==
    {ReadyTimeoutCfg, ManagerReadyTimeout, ManagerReadyTimeout + WaitLen}

InitTimeout ==
    /\ authType = "oauth"
    /\ interimPageAuth = FALSE
    /\ servicePrefix = <<"/", "svc">>
    /\ readyTimeout \in ReadyTimeouts
    /\ InitLife
    /\ HealthIdle
    /\ ActivityIdle
    /\ ExtraIdle

\* time passes in long steps while the child is starting
LongTick ==
    /\ readyPc = "probing"
    /\ now < ManagerReadyTimeout + WaitLen
    /\ now' = now + WaitLen
    /\ UNCHANGED <<cfgVars, extraVars, sideVars, webVars, logVars, lifeVars,
                   last>>

\* every configuration: both auth modes, --interim-page-auth, and an empty
\* JUPYTERHUB_SERVICE_PREFIX
InitCfg ==
    /\ authType \in {"oauth", "none"}
    /\ interimPageAuth \in BOOLEAN
    /\ authType = "oauth" => ~interimPageAuth
    /\ servicePrefix \in {<< >>, <<"/", "svc">>}
    /\ readyTimeout = ReadyTimeoutCfg
    /\ InitLife
    /\ HealthIdle
    /\ ActivityIdle
    /\ ExtraIdle

(* ---------------------- the activity reporter ------------------------ *)
\* startActivityReporter, called by Server.StartSubprocess in oauth mode
\* after MarkAppDeployed.  how: "ok", "envErr" (NewClientFromEnv fails) or
\* "pingErr" (Client.Ping fails: the Hub is unreachable or does not answer
\* 200).  Only "ok" starts the reporter goroutine; StartSubprocess logs a
\* warning for the others and returns.
StartActivityReporter(how) ==
    /\ startPc = "startReporter"
    /\ reporter' = IF how = "ok"
                   THEN [reporter EXCEPT !.pc = "begin"]
                   ELSE [reporter EXCEPT !.why = how]
    /\ startPc' = "done"
    /\ UNCHANGED <<now, cfgVars, extraVars, healthVars, keepAlive, tracker, notes,
                   tickLog, webVars, logVars, state, mu, pending, child,
                   exitErr, startedAt, stoppedAt, readyPc, waiterPc,
                   shutdownPc, stopAt, rootCancelled, mgrCancelled, sigterm,
                   sigkill, deploymentTime, probeOK, runningAt, last>>

\* variant: the recorded activity is sent only when keepAlive is set
TickPayload_Swapped(alive, lastActivity) ==
    IF alive THEN lastActivity ELSE now

\* variant: the current time is sent whatever the tracker holds
TickPayload_AlwaysNow(alive, lastActivity) == now

\* the timestamp a tick sends: NotifyActivity sends the current time,
\* NotifyActivityWithTime the recorded activity; Zero: nothing is sent
TickPayload(alive, lastActivity) ==
    IF alive THEN now ELSE lastActivity

\* a call of NotifyActivity or NotifyActivityWithTime: the POST succeeds if
\* the Hub answers 2xx and the reporter's context is not cancelled
Notify(ts, hubOK, when) ==
    IF ts = Zero THEN notes
    ELSE Append(notes, [ts |-> ts, at |-> now, when |-> when,
                        ok |-> hubOK /\ ~rootCancelled])

\* the reporter goroutine starts: the ticker, and the first notification if
\* keepAlive.  hubOK: the Hub answers 2xx.
ReporterBegin(hubOK) ==
    /\ reporter.pc = "begin"
    /\ reporter' = [reporter EXCEPT !.pc = "loop", !.tickerStart = now]
    /\ notes' = Notify(IF keepAlive THEN now ELSE Zero, hubOK, "start")
    /\ UNCHANGED <<now, cfgVars, extraVars, healthVars, keepAlive, tracker, tickLog,
                   webVars, logVars, lifeVars, last>>

\* case <-ticker.C
ReporterTick(hubOK) ==
    /\ reporter.pc = "loop"
    /\ reporter.tickC
    /\ reporter' = [reporter EXCEPT !.tickC = FALSE]
    /\ notes' = Notify(TickPayload(keepAlive, tracker), hubOK, "tick")
    /\ tickLog' = Append(tickLog, [at |-> now, lastActivity |-> tracker])
    /\ UNCHANGED <<now, cfgVars, extraVars, healthVars, keepAlive, tracker, webVars,
                   logVars, lifeVars, last>>

\* variant: the loop has no case for ctx.Done()
ReporterStops_KeepsOn ==
    /\ reporter.pc = "loop"
    /\ rootCancelled
    /\ UNCHANGED vars

\* case <-ctx.Done()
ReporterStops ==
    /\ reporter.pc = "loop"
    /\ rootCancelled
    /\ reporter' = [reporter EXCEPT !.pc = "stopped"]
    /\ UNCHANGED <<now, cfgVars, extraVars, healthVars, keepAlive, tracker, notes,
                   tickLog, webVars, logVars, lifeVars, last>>

\* Tracker.RecordActivity: the timestamp it stores
RecordActivity == now

\* the router whose Config carries the ActivityTracker (the one
\* NewServer builds): Router.ServeHTTP, and Tracker.RecordActivity for a
\* request that the reverse proxy forwards to the child
ServeHTTPTracked(req) ==
    /\ last.kind = "none"
    /\ shutdownPc # "done"
    /\ ReadsState(req.path) => CanRead
    /\ last' = Handled(req, "any")
    /\ tracker' = IF RouterServeHTTP(req).by = "backend"
                  THEN RecordActivity ELSE tracker
    /\ UNCHANGED <<now, cfgVars, extraVars, healthVars, keepAlive, reporter, notes,
                   tickLog, webVars, logVars, lifeVars>>

\* the requests that feed the tracker: to the app root and to the logs API,
\* with and without a token, plain and WebSocket
ActivityRequests ==
    {req \in RequestsSvc :
        /\ req.path \in {<<"/", "svc", "/">>,
                          <<"/", "svc">> \o InterimPath
                              \o <<"/", "api", "/", "logs">>}
        /\ req.cookie = "none"
        /\ ~req.code}

\* the clock of the reporter: half an interval passes; the ticker puts a
\* tick in its channel of capacity one at every full interval
ActivityHorizon == TickLen + MaxReports * ReportInterval

HalfInterval ==
    /\ now + ReportInterval \div 2 <= ActivityHorizon
    /\ now' = now + ReportInterval \div 2
    /\ reporter' =
           IF reporter.pc = "loop"
           THEN [reporter EXCEPT
                    !.tickC = @ \/ (now + ReportInterval \div 2
                                    - reporter.tickerStart)
                                       % ReportInterval = 0]
           ELSE reporter
    /\ UNCHANGED <<cfgVars, extraVars, healthVars, keepAlive, tracker, notes, tickLog,
                   webVars, logVars, lifeVars, last>>

\* no request is being answered
Quiet == last.kind = "none"

\* the supervisor, the interim handler and the environment of the child;
\* they move between requests
Life ==
    \/ Quiet /\ StartBegin
    \/ \E how \in {"ok", "pipeErr", "execErr"} : Quiet /\ StartSpawn(how)
    \/ Quiet /\ MarkAppDeployed
    \/ Quiet /\ StartFailed
    \/ \E ok \in BOOLEAN : Quiet /\ ReadyCheckReturns(ok)
    \/ \E err \in BOOLEAN : Quiet /\ ChildExits(err)
    \/ Quiet /\ WaiterWaitReturns
    \/ Quiet /\ WaiterRecordStopped
    \/ \E t \in Tasks : Quiet /\ SetState(t)
    \/ Quiet /\ Tick

\* the last step of Server.StartSubprocess in oauth mode
StartReporter ==
    \E how \in {"ok", "envErr", "pingErr"} : Quiet /\ StartActivityReporter(how)

\* signal-driven shutdown
Shutdown ==
    \/ Quiet /\ Signal
    \/ Quiet /\ ShutdownCheck
    \/ Quiet /\ StopLock
    \/ \E timedOut \in BOOLEAN : Quiet /\ StopSelect(timedOut)
    \/ Quiet /\ StopCancel
    \/ Quiet /\ HTTPShutdown

Http ==
    \/ \E req \in Requests : ServeHTTP(req)
    \/ ResponseWritten

\* The proxy in its default configuration, from start to shutdown.
Next == Life \/ StartReporter \/ Shutdown \/ Http

Spec == Init /\ [][Next]_vars

\* The proxy in every configuration, as long as no shutdown signal arrives;
\* the start of the activity reporter, which closes StartSubprocess, is left
\* to Spec and SpecActivity.
NextCfg == Life \/ Http

SpecCfg == InitCfg /\ [][NextCfg]_vars

\* The supervisor waiting for a child that takes minutes to get ready.
SpecTimeout == InitTimeout /\ [][Life \/ (Quiet /\ LongTick)]_vars

\* The interim handler as an object: MarkAppDeployed called again and again
\* while the supervisor moves and requests are served.
NextDeploy == Life \/ Http \/ (Quiet /\ MarkAppDeployedAgain)

SpecDeploy == Init /\ [][NextDeploy]_vars

\* a client going through the login redirect and the callback
OAuthFlow ==
    \/ \E path \in {AppRootPath, InterimBasePath} : BrowserVisit(path)
    \/ \E c \in Clients, S \in 1..MaxLogins, code \in BOOLEAN,
          hub \in {"ok", "non200"} : Callback(c, S, code, hub)
    \/ ResponseWritten

NextOAuth == Life \/ OAuthFlow

SpecOAuth == Init /\ [][NextOAuth]_vars

\* the configurations in which server.New builds an OAuth middleware:
\* authtype oauth, and authtype none with --interim-page-auth; the Hub
\* that spawned the proxy has set JUPYTERHUB_SERVICE_PREFIX
InitLogin ==
    /\ InitCfg
    /\ authType = "oauth" \/ interimPageAuth
    /\ servicePrefix # << >>

\* a client going through the login redirect and the callback in each of
\* these configurations
SpecLogin == InitLogin /\ [][NextOAuth]_vars

\* the supervisor just after Manager.Start has spawned the child and
\* started the two reader goroutines
InitReaders ==
    /\ authType = "oauth"
    /\ interimPageAuth = FALSE
    /\ servicePrefix = <<"/", "svc">>
    /\ readyTimeout = ReadyTimeoutCfg
    /\ now = 0
    /\ state = StateStarting
    /\ mu = "free"
    /\ pending = [t \in Tasks |-> "none"]
    /\ child = "alive"
    /\ exitErr = FALSE
    /\ startedAt = 0
    /\ stoppedAt = Zero
    /\ startPc = "started"
    /\ readyPc = "probing"
    /\ waiterPc = "waiting"
    /\ shutdownPc = "idle"
    /\ stopAt = Zero
    /\ rootCancelled = FALSE
    /\ mgrCancelled = FALSE
    /\ sigterm = FALSE
    /\ sigkill = FALSE
    /\ deploymentTime = Zero
    /\ probeOK = FALSE
    /\ runningAt = Zero
    /\ last = NoRequest
    /\ jar = [state |-> -1, token |-> "none"]
    /\ issued = 0
    /\ accepted = [c \in Clients |-> [S \in 1..MaxLogins |-> 0]]
    /\ logBuf = NewLogBuffer
    /\ readers = [str \in Streams |-> [pc |-> "idle", ts |-> 0]]
    /\ hist = << >>
    /\ clearedAt = 0
    /\ HealthIdle
    /\ ActivityIdle
    /\ marks = << >>
    /\ cmd = NoCommand
    /\ getter = [pc |-> "idle"]
    /\ streamer = NoStream

\* ... with the temp file of NewLogBuffer in place
InitLog ==
    /\ InitReaders
    /\ logFile = CreateTemp("ok")

\* ... with and without the temp file of NewLogBuffer
InitMirror ==
    /\ InitReaders
    /\ logFile \in {CreateTemp("ok"), CreateTemp("err")}

\* the log buffer: the two readers append while the clock runs, and the
\* logs API reads and clears
LogBufferOps ==
    \/ Quiet /\ Tick
    \/ \E str \in Streams : Quiet /\ OutputHandlerStamp(str)
    \/ \E str \in Streams : Quiet /\ OutputHandlerAppend(str)
    \/ Quiet /\ ClearLogs
    \/ \E q \in LogQueries : LogQuery(q)
    \/ ResponseWritten

SpecLog == InitLog /\ [][LogBufferOps]_vars

\* a log stream next to the two readers
StreamOps ==
    \/ Quiet /\ Tick
    \/ \E str \in Streams :
          Quiet /\ Len(hist) + Cardinality(Stamped) < MaxStreamed
                /\ OutputHandlerStamp(str)
    \/ \E str \in Streams : Quiet /\ OutputHandlerAppend(str)
    \/ Quiet /\ StreamLogs
    \/ Quiet /\ StreamPoll
    \/ Quiet /\ StreamCancelled

SpecStream == InitLog /\ [][StreamOps]_vars

\* the log buffer and its file: appends, Clear, and a disk that fills up
MirrorOps ==
    \/ Quiet /\ Tick
    \/ \E str \in Streams : Quiet /\ OutputHandlerStamp(str)
    \/ \E str \in Streams : Quiet /\ OutputHandlerAppend(str)
    \/ Quiet /\ ClearLogs
    \/ Quiet /\ WriteFails

SpecMirror == InitMirror /\ [][MirrorOps]_vars

\* the logs endpoint GET /api/logs while the two readers append
LogsAPIOps ==
    \/ \E str \in Streams : Quiet /\ OutputHandlerStamp(str)
    \/ \E str \in Streams : Quiet /\ OutputHandlerAppend(str)
    \/ Quiet /\ ClearLogs
    \/ \E q \in GetLogsQueries : GetLogsRequest(q)
    \/ ResponseWritten

SpecLogsAPI == InitLog /\ [][LogsAPIOps]_vars

\* the supervisor and the shutdown while the logs API asks for the uptime
UptimeOps ==
    \/ GetUptimeRLock
    \/ GetUptimeReturn
    \/ ResponseWritten

NextUptime == Life \/ Shutdown \/ UptimeOps

SpecUptime == Init /\ [][NextUptime]_vars

\* the two pipe readers of Manager.streamOutput next to the supervisor
ReaderOps ==
    \/ \E str \in Streams :
          Quiet /\ Len(hist) < MaxDrained /\ OutputHandlerStamp(str)
    \/ \E str \in Streams : Quiet /\ OutputHandlerAppend(str)

SpecDrain == Init /\ [][Life \/ ReaderOps]_vars

\* the supervisor when Start is called again and again
SpecRestart == Init /\ [][Life \/ StartReporter \/ (Quiet /\ StartAgain)]_vars

\* the proxy in oauth mode and clients that forge X-Forwarded-User-Data
ForwardOps ==
    \/ \E req \in ForwardRequests : ServeHTTPForwarding(req)
    \/ ResponseWritten

SpecForward == Init /\ [][Life \/ ForwardOps]_vars

\* run() between Builder.Build and the creation of the manager: every short
\* argument and the command lines of the tests
InitBuilder ==
    /\ authType = "oauth"
    /\ interimPageAuth = FALSE
    /\ servicePrefix = <<"/", "svc">>
    /\ readyTimeout = ReadyTimeoutCfg
    /\ InitLife
    /\ HealthIdle
    /\ ActivityIdle
    /\ marks = << >>
    /\ MoreIdle
    /\ \E in \in BuilderInputs :
           cmd = [pc |-> "built", argv |-> in.argv, port |-> in.port,
                  env |-> in.env, out |-> << >>, again |-> << >>]

BuilderOps == Substitute \/ SubstituteAgain

SpecBuilder == InitBuilder /\ [][BuilderOps]_vars

\* the proxy in oauth mode with the child Running, when StartSubprocess is
\* about to start the reporter; --keep-alive set or not
InitActivity ==
    /\ authType = "oauth"
    /\ interimPageAuth = FALSE
    /\ servicePrefix = <<"/", "svc">>
    /\ readyTimeout = ReadyTimeoutCfg
    /\ now = TickLen
    /\ state = StateRunning
    /\ mu = "free"
    /\ pending = [t \in Tasks |-> "none"]
    /\ child = "alive"
    /\ exitErr = FALSE
    /\ startedAt = 0
    /\ stoppedAt = Zero
    /\ startPc = "startReporter"
    /\ readyPc = "done"
    /\ waiterPc = "waiting"
    /\ shutdownPc = "idle"
    /\ stopAt = Zero
    /\ rootCancelled = FALSE
    /\ mgrCancelled = FALSE
    /\ sigterm = FALSE
    /\ sigkill = FALSE
    /\ deploymentTime = TickLen
    /\ probeOK = TRUE
    /\ runningAt = TickLen
    /\ last = NoRequest
    /\ jar = [state |-> -1, token |-> "none"]
    /\ issued = 0
    /\ accepted = [c \in Clients |-> [S \in 1..MaxLogins |-> 0]]
    /\ logBuf = NewLogBuffer
    /\ readers = [str \in Streams |-> [pc |-> "idle", ts |-> 0]]
    /\ hist = << >>
    /\ clearedAt = 0
    /\ HealthIdle
    /\ marks = <<TickLen>>
    /\ cmd = NoCommand
    /\ MoreIdle
    /\ keepAlive \in BOOLEAN
    /\ tracker = Zero
    /\ reporter = ReporterOff
    /\ notes = << >>
    /\ tickLog = << >>

\* the reporter, the requests that feed the tracker, and the signal that
\* cancels the reporter's context
ActivityOps ==
    \/ \E how \in {"ok", "envErr", "pingErr"} :
           Quiet /\ StartActivityReporter(how)
    \/ \E hubOK \in BOOLEAN : Quiet /\ ReporterBegin(hubOK)
    \/ \E hubOK \in BOOLEAN : Quiet /\ ReporterTick(hubOK)
    \/ Quiet /\ ReporterStops
    \/ Quiet /\ HalfInterval
    \/ Quiet /\ Signal
    \/ \E req \in ActivityRequests : ServeHTTPTracked(req)
    \/ ResponseWritten

SpecActivity == InitActivity /\ [][ActivityOps]_vars

\* the reporter goroutine is scheduled whatever the requests do: it gets to
\* its loop, and a select whose ctx.Done() case stays ready takes it in the
\* end (ticks are minutes apart)
SpecActivityLive ==
    /\ SpecActivity
    /\ WF_vars(\E hubOK \in BOOLEAN : ReporterBegin(hubOK))
    /\ WF_vars(ReporterStops)

(* ------------------- pkg/health: WaitUntilReady ---------------------- *)
\* the answers a probe can get: a status code, or 0 for a transport error
ProbeAnswers == {0, 200, 302, 404, 503}

\* the configurations a Checker is built from; 0 is the unset value
CheckConfigs ==
    [Timeout : {0, MaxCheckTimeout},
     Interval : {0, ProbeInterval, 2 * ProbeInterval},
     InitialDelay : {0, InitialDelay},
     SuccessThreshold : 0..MaxThreshold]

\* NewChecker: the defaults for an unset Interval and SuccessThreshold
NewChecker(cfg) ==
    [cfg EXCEPT !.Interval = IF cfg.Interval = 0 THEN ProbeInterval ELSE @,
                !.SuccessThreshold = IF cfg.SuccessThreshold = 0 THEN 1 ELSE @]

\* Checker.check with the request bound to timeoutCtx: nil (TRUE) for a 2xx
\* or 3xx answer received while the context is live
check(answer, ctxErr) ==
    /\ ctxErr = "none"
    /\ answer # 0
    /\ answer >= 200
    /\ answer < 400

\* the counter after a probe
Consecutive_NoReset(n, ok) == IF ok THEN n + 1 ELSE n

Consecutive(n, ok) == IF ok THEN n + 1 ELSE 0

\* timeoutCtx.Done() is ready
TimeoutCtxDone_DeadlineOnly(h) == h.ctxErr = "deadline"

TimeoutCtxDone(h) == h.ctxErr # "none"

\* line 87 to line 95: timeoutCtx, the ticker and the counters.  A parent
\* that is already cancelled cancels timeoutCtx at once; so does a Timeout
\* that is not positive.
EnterLoop(h) ==
    [h EXCEPT !.pc = "loop",
              !.deadline = now + h.cfg.Timeout,
              !.tickerStart = now,
              !.tickC = FALSE,
              !.attempt = 0,
              !.consecutiveSuccesses = 0,
              !.ctxErr = IF h.cancelled THEN "canceled"
                         ELSE IF h.cfg.Timeout <= 0 THEN "deadline"
                         ELSE "none"]

\* WaitUntilReady is called
WaitBegin ==
    /\ hc.pc = "start"
    /\ hc' = IF hc.cfg.InitialDelay > 0
             THEN [hc EXCEPT !.pc = "delay",
                             !.delayUntil = now + hc.cfg.InitialDelay]
             ELSE EnterLoop(hc)
    /\ UNCHANGED <<now, cfgVars, extraVars, activityVars, webVars, logVars, lifeVars,
                   last, probes>>

\* the initial delay has passed
DelayOver ==
    /\ hc.pc = "delay"
    /\ now >= hc.delayUntil
    /\ hc' = EnterLoop(hc)
    /\ UNCHANGED <<now, cfgVars, extraVars, activityVars, webVars, logVars, lifeVars,
                   last, probes>>

\* ctx.Done() during the initial delay
DelayCancelled ==
    /\ hc.pc = "delay"
    /\ hc.cancelled
    /\ hc' = [hc EXCEPT !.pc = "returned",
                        !.result = [err |-> "initialDelay",
                                    cause |-> "canceled", attempts |-> 0]]
    /\ UNCHANGED <<now, cfgVars, extraVars, activityVars, webVars, logVars, lifeVars,
                   last, probes>>

\* case <-timeoutCtx.Done()
TimeoutReturn ==
    /\ hc.pc = "loop"
    /\ TimeoutCtxDone(hc)
    /\ hc' = [hc EXCEPT !.pc = "returned",
                        !.result = [err |-> "timeout", cause |-> hc.ctxErr,
                                    attempts |-> hc.attempt]]
    /\ UNCHANGED <<now, cfgVars, extraVars, activityVars, webVars, logVars, lifeVars,
                   last, probes>>

\* case <-ticker.C: one probe, which the application answers with answer
Probe(answer) ==
    /\ hc.pc = "loop"
    /\ hc.tickC
    /\ LET ok == check(answer, hc.ctxErr)
           n == Consecutive(hc.consecutiveSuccesses, ok)
           ready == ok /\ n >= hc.cfg.SuccessThreshold
       IN /\ hc' = [hc EXCEPT
                       !.tickC = FALSE,
                       !.attempt = @ + 1,
                       !.consecutiveSuccesses = n,
                       !.pc = IF ready THEN "returned" ELSE @,
                       !.result = IF ready
                                  THEN [err |-> "nil", cause |-> "none",
                                        attempts |-> hc.attempt + 1]
                                  ELSE @]
          /\ probes' = Append(probes, IF hc.ctxErr = "none" THEN answer ELSE 0)
    /\ UNCHANGED <<now, cfgVars, extraVars, activityVars, webVars, logVars, lifeVars,
                   last>>

\* the caller's context is cancelled, or its own deadline passes
CancelCtx ==
    /\ hc.pc \in {"start", "delay", "loop"}
    /\ ~hc.cancelled
    /\ hc' = [hc EXCEPT !.cancelled = TRUE,
                        !.ctxErr = IF hc.pc = "loop" /\ @ = "none"
                                   THEN "canceled" ELSE @]
    /\ UNCHANGED <<now, cfgVars, extraVars, activityVars, webVars, logVars, lifeVars,
                   last, probes>>

\* a timer of the call is due: the delay is over or cancelled, or timeoutCtx
\* is done
TimerDue ==
    \/ hc.pc = "start"
    \/ hc.pc = "delay" /\ (now >= hc.delayUntil \/ hc.cancelled)
    \/ hc.pc = "loop" /\ hc.ctxErr # "none"

\* a second passes; the ticker puts a tick in its channel of capacity one
\* every Interval, and timeoutCtx expires at its deadline
Second ==
    /\ hc.pc \in {"delay", "loop"}
    /\ ~TimerDue
    /\ now < MaxTime
    /\ now' = now + 1
    /\ hc' = IF hc.pc = "loop"
             THEN [hc EXCEPT
                      !.tickC = @ \/ (now + 1 - hc.tickerStart)
                                         % hc.cfg.Interval = 0,
                      !.ctxErr = IF now + 1 >= hc.deadline
                                 THEN "deadline" ELSE @]
             ELSE hc
    /\ UNCHANGED <<cfgVars, extraVars, activityVars, webVars, logVars, lifeVars, last,
                   probes>>

\* a Checker built from any configuration, about to wait
InitHealth ==
    /\ authType = "oauth"
    /\ interimPageAuth = FALSE
    /\ servicePrefix = <<"/", "svc">>
    /\ readyTimeout = ReadyTimeoutCfg
    /\ InitLife
    /\ ActivityIdle
    /\ ExtraIdle
    /\ \E cfg \in CheckConfigs :
           hc = [pc |-> "start", cfg |-> NewChecker(cfg), cancelled |-> FALSE,
                 ctxErr |-> "none", delayUntil |-> 0, deadline |-> 0,
                 tickerStart |-> 0, tickC |-> FALSE, attempt |-> 0,
                 consecutiveSuccesses |-> 0,
                 result |-> [err |-> "none", cause |-> "none",
                             attempts |-> 0]]
    /\ probes = << >>

CheckerOps ==
    \/ WaitBegin
    \/ DelayOver
    \/ DelayCancelled
    \/ TimeoutReturn
    \/ \E answer \in ProbeAnswers : Probe(answer)
    \/ CancelCtx
    \/ Second

SpecHealth == InitHealth /\ [][CheckerOps]_vars

\* the goroutine that called WaitUntilReady keeps running, and time passes
SpecHealthLive == SpecHealth /\ WF_vars(CheckerOps)

(* ============================ properties ============================= *)
\* the last request carried no token the Hub validates
NoValidToken == last.req.hdr # "good" /\ last.req.cookie # "good"

\* the last request targets the app route: inside the service prefix,
\* outside the interim subtree, and no OAuth callback path
AppTarget ==
    /\ ValidateServicePrefix(last.req.path)
    /\ ~HasPrefix(last.req.path, InterimBasePath)
    /\ ~HasSuffix(last.req.path, CallbackSuffix)

\* the last request targets the interim HTML page or a logs-API endpoint
InterimPageTarget == last.req.path = InterimBasePath
LogsAPITarget == last.req.path \in LogsAPIPaths

Is2xx(status) == status >= 200 /\ status < 300

\* C1: in oauth mode, in every supervisor state and at every time, a request
\* without a Hub-validated token to the app route, the interim HTML page or a
\* logs-API endpoint is never answered 2xx; it is answered 302 to the Hub
\* authorize URL.
C1_NoTokenNever2xx ==
    (/\ last.kind = "http"
     /\ authType = "oauth"
     /\ NoValidToken
     /\ AppTarget \/ InterimPageTarget \/ LogsAPITarget)
    => /\ ~Is2xx(last.resp.status)
       /\ last.resp.status = 302
       /\ last.resp.by = "login"

\* C2: in oauth mode a request reaches the child only with a token of its
\* header or cookie validated by the Hub; a WebSocket upgrade without a valid
\* token gets 302 while Running and never 101.
C2_BackendOnlyWithValidToken ==
    (last.kind = "http" /\ authType = "oauth") =>
        /\ last.resp.by = "backend" =>
               /\ last.resp.authed
               /\ last.req.hdr = "good" \/ last.req.cookie = "good"
        /\ (last.req.ws /\ NoValidToken) =>
               /\ last.resp.status # 101
               /\ last.st = StateRunning =>
                      /\ last.resp.status = 302
                      /\ last.resp.by = "login"

C2_Witness ==
    /\ last.kind = "http"
    /\ last.req.ws
    /\ NoValidToken
    /\ last.st = StateRunning
    /\ last.alive
    /\ last.resp.status = 302

\* C3: Running implies that the readiness probe has returned OK before, for
\* this child.
C3_RunningImpliesProbed == IsRunning => probeOK

C3_Witness == IsRunning /\ probeOK /\ child = "alive"

\* the route the dispatcher's four rules give for a path, in their order,
\* when the supervisor state is st
C4_Rule(path, st) ==
    IF NeedsOAuth /\ path = servicePrefix \o <<"/", "oauth_callback">>
         /\ st # StateRunning
      THEN "oauth_local"
    ELSE IF HasPrefix(path, servicePrefix \o <<"/", "_temp", "/", "jhub-app-proxy">>)
      THEN "interim"
    ELSE IF servicePrefix # << >> /\ ~HasPrefix(path, servicePrefix \o <<"/">>)
      THEN "notfound"
    ELSE "app"

\* C4: every request is handed to exactly one of the local OAuth handler,
\* the interim subtree, the 404 reply and the app route, the one the four
\* rules give in their order; the app route is the interim HTML if not
\* Running and the reverse proxy if Running; with an empty service prefix
\* the 404 rule never fires.
C4_DispatchOrder ==
    last.kind = "http" =>
        /\ last.resp.route = C4_Rule(last.req.path, last.st)
        /\ last.resp.route = "oauth_local" =>
               last.resp.by \in {"callback", "callbackFallback", "login"}
        /\ last.resp.route = "interim" =>
               last.resp.by \in {"logsAPI", "static", "interimHTML",
                                 "interimRedirect", "mux404", "graceRedirect",
                                 "login", "callback"}
        /\ last.resp.route = "notfound" =>
               last.resp.by = "prefix404" /\ last.resp.status = 404
        /\ last.resp.route = "app" =>
               IF last.st = StateRunning
                 THEN last.resp.by \in {"backend", "login", "callback"}
                 ELSE last.resp.by = "interimHTML"
        /\ servicePrefix = << >> => last.resp.route # "notfound"

C4_Witness ==
    /\ last.kind = "http"
    /\ servicePrefix = << >>
    /\ authType = "none"
    /\ last.req.path = <<"/", "svc", "/">>
    /\ last.st = StateRunning
    /\ last.resp.by = "backend"

\* C5: from the first transition to Running at time t, the logs API is served
\* JSON in [t, t + 10 s) and answered 307 from t + 10 s on, while Running.
C5_GraceFromRunning ==
    (/\ last.kind = "http"
     /\ LogsAPITarget
     /\ ~NoValidToken
     /\ last.st = StateRunning) =>
        IF last.t - runningAt < GracePeriod
          THEN last.resp.status = 200 /\ last.resp.by = "logsAPI"
          ELSE last.resp.status = 307

\* C6: deployedAt is set only once the supervisor has been Running.
C6_DeployedOnlyAfterRunning ==
    deploymentTime # Zero => (runningAt # Zero /\ runningAt <= deploymentTime)

\* C7: Stop() on a supervisor with a child returns: once it has sent its
\* signals and cancelled the context, its final setState(Stopped) goes
\* through.
C7_StopReturns ==
    shutdownPc = "stopSetState" => ENABLED SetState("stop")

\* C8: when the readiness deadline passes without a successful probe the
\* state becomes Failed and no signal is sent to the child; while the state is
\* Failed the logs API is served and the app route gets the interim HTML.
C8_ReadinessTimeout ==
    /\ (readyPc = "done" /\ ~probeOK /\ waiterPc = "waiting") =>
           state = StateFailed
    /\ ~probeOK => (~sigterm /\ ~sigkill /\ ~mgrCancelled)
    /\ (last.kind = "http" /\ last.st = StateFailed) =>
           /\ AppTarget =>
                  last.resp.status = 200 /\ last.resp.by = "interimHTML"
           /\ (LogsAPITarget /\ ~NoValidToken) =>
                  last.resp.status = 200 /\ last.resp.by = "logsAPI"

C8_Witness ==
    /\ last.kind = "http"
    /\ last.st = StateFailed
    /\ readyPc = "done" /\ ~probeOK /\ ~rootCancelled
    /\ child = "alive"
    /\ last.t - startedAt >= ReadyDeadline + GracePeriod
    /\ LogsAPITarget
    /\ last.resp.by = "logsAPI"

\* C9: with OAuth enabled a request to servicePrefix + "/oauth_callback" is
\* handled by the proxy's own callback handler if the supervisor is not
\* Running, and reaches the backend if it is Running.
C9_CallbackReachesBackend ==
    (/\ last.kind = "http"
     /\ NeedsOAuth
     /\ last.req.path = servicePrefix \o CallbackSuffix) =>
        IF last.st # StateRunning
          THEN last.resp.route = "oauth_local" /\ last.resp.by = "callback"
          ELSE last.resp.by = "backend"

\* the last request is a callback that carries a code, an issued state value
\* S as its state parameter and the state cookie issued with S, and the Hub
\* exchanges the code
CallbackInOrder ==
    /\ last.kind = "http"
    /\ last.resp.by = "callback"
    /\ last.req.code
    /\ last.req.stateParam \in 1..issued
    /\ last.req.stateCookie = last.req.stateParam
    /\ last.req.hub = "ok"

\* C10 as stated: a callback in order is accepted, the token cookie is set to
\* the Hub's access token and the state cookie is cleared; a state value is
\* accepted once only, by whichever client presents it again.
C10_AcceptedExactlyOnce ==
    /\ CallbackInOrder =>
           /\ last.resp.status = 302
           /\ last.resp.token = "good"
           /\ last.resp.clearState
    /\ \A S \in 1..MaxLogins : accepted["browser"][S] + accepted["replay"][S] <= 1

\* C10 amended: a callback in order is accepted, the token cookie is set to
\* the Hub's access token and the state cookie is cleared; a browser, which
\* drops the cleared state cookie, has a state value accepted once only
\* (handleCallback keeps no record of the values it has accepted).
C10_BrowserAcceptedOnce ==
    /\ CallbackInOrder =>
           /\ last.resp.status = 302
           /\ last.resp.token = "good"
           /\ last.resp.clearState
    /\ (last.kind = "http" /\ last.client = "browser" /\ Accepts(last.resp)) =>
           /\ jar.token = "good"
           /\ jar.state = -1
    /\ \A S \in 1..MaxLogins : accepted["browser"][S] <= 1

C10_Witness ==
    /\ last.kind = "http"
    /\ last.client = "browser"
    /\ last.resp.by = "callback"
    /\ last.resp.status = 403
    /\ last.req.code
    /\ last.req.stateCookie = -1
    /\ accepted["browser"][last.req.stateParam] = 1

\* C11: handleCallback answers 400 to a missing code, 403 to a missing state
\* cookie or a state parameter that differs from it, 500 to a token exchange
\* that fails in transport or returns non-200; in each case no token cookie
\* is set, the state cookie is not cleared and the wrapped handler is not
\* called.
C11_CallbackErrors ==
    (last.kind = "http" /\ last.resp.by = "callback") =>
        /\ ~last.req.code => last.resp.status = 400
        /\ (/\ last.req.code
            /\ \/ last.req.stateCookie = -1
               \/ last.req.stateCookie # last.req.stateParam) =>
               last.resp.status = 403
        /\ (/\ last.req.code
            /\ last.req.stateCookie # -1
            /\ last.req.stateCookie = last.req.stateParam
            /\ last.req.hub \in {"transportErr", "non200"}) =>
               last.resp.status = 500
        /\ last.resp.status \in {400, 403, 500} =>
               /\ last.resp.token = "none"
               /\ ~last.resp.clearState
               /\ ~last.resp.authed

C11_Witness ==
    /\ last.kind = "http"
    /\ last.resp.by = "callback"
    /\ last.req.code
    /\ last.req.stateCookie = 1 /\ last.req.stateParam = 1
    /\ last.req.hub = "transportErr"
    /\ last.resp.status = 500
    /\ last.st = StateRunning

\* the entries appended since the buffer was last cleared, in append order
SinceClear == SubSeq(hist, clearedAt + 1, Len(hist))

\* seq is in append order: the line numbers increase
InAppendOrder(seq) ==
    \A i, j \in 1..Len(seq) : i < j => seq[i].line < seq[j].line

\* C12: with the stdout and stderr readers appending concurrently, an entry
\* stored before another has a timestamp that is not later, and Recent
\* returns entries in the order they were stored.
C12_TimestampsMonotone ==
    /\ \A i, j \in 1..Len(hist) : i < j => hist[i].ts <= hist[j].ts
    /\ \A i, j \in 1..Len(Buffered(logBuf)) :
           i < j => Buffered(logBuf)[i].ts <= Buffered(logBuf)[j].ts
    /\ (last.kind = "log" /\ last.q.op = "recent") => InAppendOrder(last.out)

\* C13: the number of buffered lines never exceeds the capacity, and the
\* total that Stats reports is the number of Append calls since the buffer
\* was created (so it never decreases).
C13_CapacityAndTotal ==
    /\ Len(Buffered(logBuf)) <= LogCap
    /\ GetStats(logBuf).buffered <= LogCap
    /\ GetStats(logBuf).total = Len(hist)

\* C14: Recent(n) returns the min(n, C, N) most recently appended entries
\* still in the ring, oldest first, for n >= 1, and all buffered entries for
\* n <= 0 or n > C; N is the total Stats reports.
C14_RecentExact ==
    (last.kind = "log" /\ last.q.op = "recent") =>
        LET n == last.q.n
            N == GetStats(logBuf).total
            k == IF n <= 0 \/ n > LogCap THEN Min(LogCap, N)
                 ELSE Min(n, Min(LogCap, N))
        IN /\ Len(last.out) = k
           /\ last.out = SubSeq(SinceClear, Len(SinceClear) - k + 1,
                                Len(SinceClear))
           /\ InAppendOrder(last.out)

C14_Witness ==
    /\ last.kind = "log"
    /\ last.q.op = "recent"
    /\ last.q.n = 1
    /\ clearedAt > 0
    /\ Len(hist) - clearedAt > LogCap
    /\ last.out = <<hist[Len(hist)]>>

\* a 2xx or 3xx answer
Healthy(answer) == answer \in 200..399

\* the number of healthy answers at the end of seq
RECURSIVE TrailingSuccesses(_)
TrailingSuccesses(seq) ==
    IF seq = << >> \/ ~Healthy(seq[Len(seq)]) THEN 0
    ELSE 1 + TrailingSuccesses(SubSeq(seq, 1, Len(seq) - 1))

\* C15: WaitUntilReady returns nil only when the most recent
\* SuccessThreshold probes all succeeded (2xx or 3xx); the counter is the
\* number of successes since the last failure, and nil is returned as soon
\* as it reaches the threshold.
C15_ReadyOnlyAfterThreshold ==
    /\ hc.pc \in {"loop", "returned"} =>
           /\ hc.attempt = Len(probes)
           /\ hc.consecutiveSuccesses = TrailingSuccesses(probes)
    /\ hc.pc = "loop" => hc.consecutiveSuccesses < hc.cfg.SuccessThreshold
    /\ (hc.pc = "returned" /\ hc.result.err = "nil") =>
           /\ Len(probes) >= hc.cfg.SuccessThreshold
           /\ \A i \in 1..Len(probes) :
                  i > Len(probes) - hc.cfg.SuccessThreshold
                      => Healthy(probes[i])
           /\ TrailingSuccesses(probes) = hc.cfg.SuccessThreshold

C15_Witness ==
    /\ hc.pc = "returned"
    /\ hc.result.err = "nil"
    /\ hc.cfg.SuccessThreshold = 2
    /\ probes = <<200, 503, 302, 200>>

\* C16: WaitUntilReady always returns: nil, or the deadline error with the
\* number of attempts made, or an error for the cancelled context, during
\* the initial delay too.
C16_Terminates ==
    <>(/\ hc.pc = "returned"
       /\ \/ hc.result.err = "nil"
          \/ /\ hc.result.err = "timeout"
             /\ hc.result.cause = "deadline"
             /\ hc.result.attempts = Len(probes)
          \/ /\ hc.result.cause = "canceled"
             /\ hc.cancelled)

C16_Witness ==
    /\ hc.pc = "returned"
    /\ hc.result.err = "timeout"
    /\ hc.result.cause = "deadline"
    /\ hc.result.attempts = MaxCheckTimeout
    /\ ~hc.cancelled

\* Manager.Start has returned an error without a child: a pipe could not
\* be created or cmd.Start failed
SpawnFailed == child = "none" /\ startPc \in {"startFailed", "done"}

\* C17: after a failed spawn Start has returned with the state Failed, the
\* state is never Running afterwards, StartSubprocess appends error entries
\* of stream stderr to the log buffer, and the server keeps answering: the
\* app route with the interim HTML, and the logs API with its JSON.
C17_SpawnFailure ==
    SpawnFailed =>
        /\ state = StateFailed
        /\ runningAt = Zero
        /\ pending = [t \in Tasks |-> "none"]
        /\ readyPc = "idle"
        /\ startPc = "done" =>
               /\ Len(hist) = 2
               /\ \A i \in 1..Len(hist) : hist[i].stream = "stderr"
               /\ Buffered(logBuf) = LastN(hist, LogCap)
        /\ (last.kind = "http" /\ AppTarget) =>
               /\ last.resp.by = "interimHTML"
               /\ last.resp.status = 200
        /\ (last.kind = "http" /\ LogsAPITarget /\ ~NoValidToken) =>
               /\ last.resp.by = "logsAPI"
               /\ last.resp.status = 200

C17_Witness ==
    /\ SpawnFailed
    /\ startPc = "done"
    /\ startedAt # Zero
    /\ now > 0
    /\ last.kind = "http"
    /\ AppTarget
    /\ last.resp.by = "interimHTML"

\* the notifications of the start and of the ticks
StartNotes == SelectSeq(notes, LAMBDA n : n.when = "start")
TickNotes == SelectSeq(notes, LAMBDA n : n.when = "tick")

\* the ticks at which the tracker held an activity
ActiveTicks == SelectSeq(tickLog, LAMBDA k : k.lastActivity # Zero)

\* C18: with keepAlive the reporter sends the current time at its start and
\* at every tick; without it, nothing at the start, and at a tick the
\* tracker's last activity if and only if one is recorded, so nothing is
\* sent before the first recorded activity.
C18_ReporterModes ==
    /\ reporter.pc \in {"off", "begin"} => notes = << >>
    /\ (reporter.pc \in {"loop", "stopped"} /\ keepAlive) =>
           /\ Len(StartNotes) = 1
           /\ notes[1].when = "start"
           /\ notes[1].ts = reporter.tickerStart
           /\ notes[1].at = reporter.tickerStart
           /\ Len(TickNotes) = Len(tickLog)
           /\ \A i \in 1..Len(tickLog) :
                  /\ TickNotes[i].ts = tickLog[i].at
                  /\ TickNotes[i].at = tickLog[i].at
    /\ (reporter.pc \in {"loop", "stopped"} /\ ~keepAlive) =>
           /\ StartNotes = << >>
           /\ Len(TickNotes) = Len(ActiveTicks)
           /\ \A i \in 1..Len(ActiveTicks) :
                  /\ TickNotes[i].ts = ActiveTicks[i].lastActivity
                  /\ TickNotes[i].at = ActiveTicks[i].at
           /\ notes # << >> => tracker # Zero

C18_Witness ==
    /\ ~keepAlive
    /\ Len(tickLog) = 2
    /\ tickLog[1].lastActivity = Zero
    /\ Len(notes) = 1
    /\ notes[1].ts < notes[1].at

\* C19: a failed Hub call never stops or prevents the reporter loop, at the
\* reporter's start-up or at a tick: the reporter is off only when the Hub
\* client could not be built, it stops only when its context is cancelled,
\* and it is in its loop after a failed notification.
C19_HubFailureNeverStopsReporter ==
    /\ reporter.pc = "off" => reporter.why # "pingErr"
    /\ reporter.pc = "stopped" => rootCancelled
    /\ (notes # << >> /\ ~notes[Len(notes)].ok /\ ~rootCancelled) =>
           reporter.pc = "loop"

\* a request has just been forwarded to the child
Forwarded ==
    last.kind = "none" /\ last'.kind = "http" /\ last'.resp.by = "backend"

\* C20: a request forwarded to the child records the current time in the
\* tracker, nothing else changes the tracker, and without keepAlive the
\* tick that follows sends the recorded timestamp.
C20_ForwardedActivityReported ==
    [][/\ Forwarded => tracker' = now
       /\ ~Forwarded => tracker' = tracker
       /\ (reporter.tickC /\ ~reporter'.tickC /\ ~keepAlive /\ tracker # Zero)
              => /\ Len(notes') = Len(notes) + 1
                 /\ notes'[Len(notes')].ts = tracker
                 /\ notes'[Len(notes')].when = "tick"]_vars

C20_Witness ==
    /\ ~keepAlive
    /\ last.kind = "none"
    /\ Len(notes) = 2
    /\ notes[1].ts < notes[2].ts
    /\ notes[2].ts = tracker
    /\ notes[2].ts < notes[2].at
    /\ notes[2].ok

\* the proxy runs with --authtype none and --interim-page-auth
InterimOnlyAuth == authType = "none" /\ interimPageAuth

\* C21: with interim-only auth, in every supervisor state a request to the
\* app route needs no token and is never redirected to the Hub login; a
\* request without a Hub-valid token to the interim HTML page or a logs-API
\* endpoint is never answered 2xx; the static assets need no token.
C21_InterimOnlyAuth ==
    (last.kind = "http" /\ InterimOnlyAuth) =>
        /\ (/\ ValidateServicePrefix(last.req.path)
            /\ ~HasPrefix(last.req.path, InterimBasePath)
            /\ last.req.path # servicePrefix \o CallbackSuffix) =>
               /\ last.resp.by \in {"backend", "interimHTML"}
               /\ last.resp.status # 302
               /\ ~last.resp.authed
        /\ (NoValidToken /\ (InterimPageTarget \/ LogsAPITarget)) =>
               /\ ~Is2xx(last.resp.status)
               /\ last.resp.by \in {"login", "graceRedirect"}
        /\ last.req.path \in StaticPaths =>
               /\ last.resp.by \in {"static", "graceRedirect"}
               /\ last.resp.by = "static" => last.resp.status = 200
               /\ (last.st # StateRunning \/ last.grace) =>
                      last.resp.by = "static"

C21_Witness ==
    /\ last.kind = "http"
    /\ InterimOnlyAuth
    /\ last.st = StateRunning
    /\ last.req.path = AppRootPath
    /\ NoValidToken
    /\ last.resp.by = "backend"
    /\ last.resp.status = 200

\* the last request was made while the supervisor was not Running or inside
\* [deploymentTime, deploymentTime + GracePeriod)
InterimOpen ==
    \/ last.st # StateRunning
    \/ /\ deploymentTime # Zero
       /\ deploymentTime <= last.t
       /\ last.t < deploymentTime + GracePeriod

\* C22: a request under the interim base path is served by the interim
\* infrastructure if and only if the supervisor is not Running or the time
\* is in [deployedAt, deployedAt + 10 s); otherwise it is answered 307 to
\* the app.  The window is half-open.
C22_InterimWindow ==
    (last.kind = "http" /\ HasPrefix(last.req.path, InterimBasePath)) =>
        /\ last.resp.route = "interim"
        /\ InterimOpen =>
               /\ last.resp.by \in {"logsAPI", "static", "interimHTML",
                                    "mux404", "login", "callback"}
               /\ last.resp.status # 307
        /\ ~InterimOpen =>
               /\ last.resp.by = "graceRedirect"
               /\ last.resp.status = 307

C22_Witness ==
    /\ last.kind = "http"
    /\ last.req.path = InterimBasePath
    /\ last.st = StateRunning
    /\ last.t = deploymentTime + GracePeriod
    /\ last.resp.by = "graceRedirect"

(* C23: MarkAppDeployed is idempotent: the deployment time is the time of
   its first call, whatever calls follow it and whatever requests are served
   between them; and once the grace period is over, isInGracePeriod never
   holds again. *)
C23_MarkIdempotent ==
    /\ [](Len(marks) > 0 => deploymentTime = marks[1])
    /\ [][(deploymentTime # Zero /\ ~IsInGracePeriod) =>
              ~IsInGracePeriod']_vars

\* a call made after the first one, at a later time, and a request served
\* after the grace period of the first call
C23_Witness ==
    /\ Len(marks) >= 2
    /\ marks[Len(marks)] > marks[1]
    /\ deploymentTime = marks[1]
    /\ ~IsInGracePeriod
    /\ last.kind = "http"
    /\ last.resp.by = "graceRedirect"

\* the string s has the string sub inside it
Contains(s, sub) ==
    \E i \in 1..(Len(s) - Len(sub) + 1) :
        SubSeq(s, i, i + Len(sub) - 1) = sub

\* the string s starts and ends with the same quote character
Wrapped(s) == Len(s) >= 2 /\ s[1] = s[Len(s)] /\ s[1] \in {"'", "\""}

(* C24 as claimed: SubstitutePort applied to its own result changes nothing,
   and no output token contains {port}. *)
C24_Idempotent ==
    cmd.pc = "again" =>
        /\ cmd.again = cmd.out
        /\ \A i \in 1..Len(cmd.out) :
               ~Contains(cmd.out[i], PortPlaceholder)

(* C24, amended: no output token contains {port}; a second application
   changes a token exactly when the output of the first is still wrapped in
   a pair of quotes or still contains {-} or {--}, as it is for ''x'' or
   {{-}}. *)
C24_FixedPointUnlessNested ==
    cmd.pc = "again" =>
        \A i \in 1..Len(cmd.out) :
            /\ ~Contains(cmd.out[i], PortPlaceholder)
            /\ cmd.again[i] # cmd.out[i] <=>
                   \/ Wrapped(cmd.out[i])
                   \/ Contains(cmd.out[i], DashPlaceholder)
                   \/ Contains(cmd.out[i], DashDashPlaceholder)

\* a quoted argument with the port placeholder, substituted twice
C24_Witness ==
    /\ cmd.pc = "again"
    /\ cmd.argv = << <<"'", "-", "{", "port", "}", "'">> >>
    /\ cmd.out = << <<"-">> \o Digits(QuotePort) >>
    /\ cmd.again = cmd.out

\* what is left of s when one pair of surrounding quotes is dropped
StripOnePair(s) == IF Wrapped(s) THEN SubSeq(s, 2, Len(s) - 1) ELSE s

(* C25: after the placeholders are replaced, SubstitutePort drops exactly one
   pair of surrounding quotes, single or double, from a token; quotes nested
   inside that pair stay, and a token without a matching pair is unchanged. *)
C25_StripsOnePair ==
    cmd.pc = "substituted" =>
        \A i \in 1..Len(cmd.out) :
            cmd.out[i] =
                StripOnePair(ReplacePlaceholders(cmd.argv[i],
                                                 Digits(cmd.port)))

RootPathPlaceholder == <<"{", "root_path", "}">>

\* TestGetRootPath: "/hub" and the service prefix with a leading slash and
\* without its trailing slash; empty when the prefix is unset
ExpectedRootPath(env) ==
    IF env = << >> THEN << >>
    ELSE LET lead == IF env[1] = "/" THEN env ELSE <<"/">> \o env
             trim == IF lead[Len(lead)] = "/"
                     THEN SubSeq(lead, 1, Len(lead) - 1) ELSE lead
         IN <<"/", "hub">> \o trim

(* C26: SubstitutePort replaces every {root_path} by "/hub" followed by
   JUPYTERHUB_SERVICE_PREFIX without its trailing slash, by the empty string
   when the prefix is unset; [myapp, {-}p, {port}, {--}root-path,
   {root_path}] with port 8888 and prefix /user/test/ becomes
   [myapp, -p, 8888, --root-path, /hub/user/test]. *)
C26_RootPathReplaced ==
    cmd.pc = "substituted" =>
        /\ \A i \in 1..Len(cmd.out) :
               cmd.out[i] =
                   SubstituteArg(ReplaceAll(cmd.argv[i], RootPathPlaceholder,
                                            ExpectedRootPath(cmd.env)),
                                 Digits(cmd.port))
        /\ (/\ cmd.argv = << <<"myapp">>, <<"{", "-", "}", "p">>,
                              <<"{", "port", "}">>,
                              <<"{", "-", "-", "}", "root", "-", "path">>,
                              <<"{", "root_path", "}">> >>
            /\ cmd.port = ExamplePort
            /\ cmd.env = <<"/", "user", "/", "test", "/">>) =>
               cmd.out = << <<"myapp">>, <<"-", "p">>,
                            <<"8", "8", "8", "8">>,
                            <<"-", "-", "root", "-", "path">>,
                            <<"/", "hub", "/", "user", "/", "test">> >>

\* the number of lines the claim gives for a value of the lines parameter
ClaimedLines(l) ==
    IF l.means # "number" \/ l.val <= 0 THEN DefaultLines
    ELSE IF l.val > MaxLines THEN MaxLines
    ELSE l.val

(* C27: GET /api/logs uses 100 lines when the lines parameter is missing,
   not a number or not positive, 10000 when it is larger than 10000 and the
   given value otherwise; the response never holds more entries than the
   smaller of that number and the capacity of the buffer. *)
C27_LinesClamped ==
    (last.kind = "log" /\ last.q.op = "getLogs" /\ last.q.method = "GET") =>
        /\ last.out.query.lines = ClaimedLines(last.q.lines)
        /\ Len(last.out.logs) <= Min(last.out.query.lines, LogCap)
        /\ Len(last.out.logs) <= Len(hist) - clearedAt

\* a request for more than 10000 lines, answered from a buffer that has
\* wrapped
C27_Witness ==
    /\ last.kind = "log"
    /\ last.q.op = "getLogs"
    /\ last.q.lines.val = MaxLines + 1
    /\ last.out.query.lines = MaxLines
    /\ Len(hist) - clearedAt > LogCap
    /\ Len(last.out.logs) = LogCap

(* C28: no request observes the supervisor Running while the deployment
   time is unset; a request under the interim base path is redirected as
   "grace period over" only when the grace period has started and ended. *)
C28_RunningSeenAfterDeployed ==
    last.kind = "http" =>
        /\ (ReadsState(last.req.path) /\ last.st = StateRunning) =>
               deploymentTime # Zero
        /\ last.resp.by = "graceRedirect" =>
               /\ deploymentTime # Zero
               /\ last.t >= deploymentTime + GracePeriod

(* C29: once the monitor goroutine has recorded the exit of the child
   (state Stopped or Failed), the state is never Running again, so no request
   is forwarded to the backend of a dead child. *)
C29_NoRunningAfterExit ==
    waiterPc \in {"record", "done"} =>
        /\ state # StateRunning
        /\ (last.kind = "http" /\ last.t >= stoppedAt /\ stoppedAt # Zero) =>
               last.resp.by # "backend"

(* C30: on a graceful shutdown Server.Shutdown terminates a child that is
   still alive (SIGTERM, SIGKILL after 10 s) in every state of the supervisor
   in which the child can be alive, and then shuts the HTTP server down: when
   Shutdown has completed, no child is left running. *)
C30_NoChildAfterShutdown == shutdownPc = "done" => child # "alive"

(* C31: the fields state, started and stopped of the supervisor are read and
   written under its readers-writer lock only: while GetUptime holds the read
   lock, none of them changes. *)
C31_FieldsStableUnderRLock ==
    getter.pc = "rlocked" =>
        /\ state = getter.state
        /\ startedAt = getter.started
        /\ stoppedAt = getter.stopped

(* C32: the monitor goroutine records stoppedAt only after both pipe readers
   have drained: at the step that sets stoppedAt no reader holds a line that
   it has read and not yet handed to the log buffer. *)
C32_StoppedAfterDrain == [][stoppedAt' # stoppedAt => Stamped = {}]_vars

(* C33: Start on a supervisor whose state is Running returns an error: it
   is refused exactly when the state is Running, it spawns nothing and it
   leaves the state, the child and its goroutines as they are. *)
C33_StartRefusedWhenRunning ==
    [][(startPc = "init" /\ startPc' # "init") =>
          /\ state = StateRunning <=> startPc' = "refused"
          /\ startPc' = "refused" =>
                 UNCHANGED <<state, child, startedAt, stoppedAt, pending,
                             readyPc, waiterPc>>]_vars

\* Start has been refused while the child of the first call runs
C33_Witness ==
    /\ startPc = "refused"
    /\ state = StateRunning
    /\ child = "alive"
    /\ Len(marks) = 1

(* C34: a supervisor never has two live children: over any sequence of Start
   calls, Start spawns a child only when no child spawned before is alive. *)
C34_OneLiveChild ==
    [][(startPc = "spawn" /\ startPc' = "started") => child # "alive"]_vars

\* the token of the request that the Hub validated: the header's, else the
\* cookie's
ValidatedToken(req) == IF GetUser(req.hdr) # "none" THEN req.hdr ELSE req.cookie

(* C35: in oauth mode the X-Forwarded-User-Data header of a request that
   reaches the child holds one value, the JSON of the user the Hub returned for the token of the request
   that it validated; no value the client sent in that header gets through. *)
C35_UserDataFromHub ==
    (/\ last.kind = "http"
     /\ authType = "oauth"
     /\ last.resp.by = "backend") =>
        /\ last.resp.authed
        /\ GetUser(ValidatedToken(last.req)) # "none"
        /\ last.fwd = <<Marshal(GetUser(ValidatedToken(last.req)))>>

\* a user with a valid cookie forges the header with the JSON of the admin
C35_Witness ==
    /\ last.kind = "http"
    /\ last.resp.by = "backend"
    /\ last.req.hdr = "bad"
    /\ last.req.cookie = "good"
    /\ last.req.userData = <<"x", Marshal("root")>>
    /\ last.fwd = <<Marshal("alice")>>

\* the callback the Hub sends the browser back with: the state value of the
\* login redirect, the state cookie the redirect stored, a code the Hub
\* exchanges
HubCallback(obs) ==
    /\ obs.kind = "http"
    /\ obs.client = "browser"
    /\ obs.req.path = servicePrefix \o CallbackSuffix
    /\ obs.req.code
    /\ obs.req.hub = "ok"
    /\ obs.req.stateParam # 0
    /\ obs.req.stateCookie = obs.req.stateParam

(* C36: every login redirect can be completed: the callback the Hub sends
   the browser back with is answered by handleCallback, which accepts it and
   stores the token cookie, in every supervisor state and in both
   configurations that have an OAuth middleware. *)
C36_LoginCompletes ==
    HubCallback(last) => Accepts(last.resp) /\ jar.token = "good"

\* the lines of the entries, one per entry
RECURSIVE LogLines(_)
LogLines(entries) ==
    IF entries = << >> THEN << >>
    ELSE <<LogLine(Head(entries))>> \o LogLines(Tail(entries))

IsPrefix(a, b) == Len(a) <= Len(b) /\ SubSeq(b, 1, Len(a)) = a

(* C37 as stated: at every moment the file holds one line per Append ever
   made, in the order of the appends. *)
C37_MirrorHoldsEveryAppend == logFile.lines = LogLines(hist)

(* C37, amended: Clear empties the ring and leaves the file as it is, the
   file never loses a line, its lines are those of a prefix of the appends in
   append order, and as long as the temp file is there and no write has
   failed it holds one line per Append ever made. *)
C37_MirrorAppendOnly ==
    /\ [](/\ IsPrefix(logFile.lines, LogLines(hist))
          /\ logFile.fd = "open" => logFile.lines = LogLines(hist)
          /\ logFile.fd = "nil" => logFile.lines = << >>)
    /\ [][/\ IsPrefix(logFile.lines, logFile'.lines)
          /\ clearedAt' # clearedAt =>
                logFile' = logFile /\ logBuf' = NewLogBuffer]_vars

\* Clear has run after the ring wrapped, and the file still has every line
C37_Witness ==
    /\ clearedAt > LogCap
    /\ logBuf = NewLogBuffer
    /\ logFile.fd = "open"
    /\ Len(logFile.lines) = clearedAt

(* C38: the supervisor gives up on readiness only after the configured
   ready timeout has elapsed since the child was started; no built-in
   timeout ends the wait before that. *)
C38_TimeoutOnlyAfterT ==
    [][(readyPc = "probing" /\ readyPc' = "setState"
        /\ pending'["ready"] = StateFailed) =>
           now - startedAt >= readyTimeout]_vars

(* C39: once the root context is cancelled a reporter goroutine that was
   started gets to its end; a reporter that has ended sends nothing more,
   and no notification sent after the cancellation is delivered. *)
C39_ReporterStopsOnCancel ==
    /\ (rootCancelled /\ reporter.pc \in {"begin", "loop"})
           ~> (reporter.pc = "stopped")
    /\ [][/\ reporter.pc = "stopped" =>
                notes' = notes /\ reporter' = reporter
          /\ (rootCancelled /\ notes' # notes) =>
                ~notes'[Len(notes')].ok]_vars

\* the reporter has ended after the signal, having taken a tick before
C39_Witness ==
    /\ rootCancelled
    /\ reporter.pc = "stopped"
    /\ Len(tickLog) >= 1
    /\ \E i \in 1..Len(notes) : notes[i].ok

\* the entries appended since StreamLogs was called
AfterOpen == SubSeq(hist, streamer.opened + 1, Len(hist))

(* C40: a log stream delivers every entry appended after it was opened,
   once and in append order: what has been sent is always a prefix of those
   entries, and after a poll that no append has followed it is all of them;
   a closed channel got nothing that was not appended. *)
C40_StreamDeliversAll ==
    streamer.pc # "off" =>
        /\ IsPrefix(streamer.out, AfterOpen)
        /\ (streamer.pc = "open" /\ streamer.polled = Len(hist)) =>
               streamer.out = AfterOpen

====
